---- MODULE Spec2Model ----
(***************************************************************************)
(* Rules engine of ptcg_ai: the zone/state model (models.py), the atomic   *)
(* operations (game_tools.py), the plan interpreter (card_effects.py), the *)
(* referee's request handlers (referee.py) and the attack compiler         *)
(* (agents/rule_analyst/analyzer.py).                                      *)
(***************************************************************************)
EXTENDS Integers, Sequences, FiniteSets, TLC

VARIABLES zones, damage, attached_energy, special_conditions,
          prizes_remaining, usage_trackers, turn_player, turn_number, phase,
          nreq, attach_done, played, attack_text, plan_steps,
          player_decks, create_result

game == <<zones, damage, attached_energy, special_conditions,
          prizes_remaining, usage_trackers, turn_player, turn_number, phase>>
vars == <<zones, damage, attached_energy, special_conditions,
          prizes_remaining, usage_trackers, turn_player, turn_number, phase,
          nreq, attach_done, played, attack_text, plan_steps,
          player_decks, create_result>>

-----------------------------------------------------------------------------
(* Bounds of the model *)
MaxRequests == 2
MaxTurn == 3
NumSeeds == 1
OpeningHand == 4
MaxReveal == 3

(* Program constants *)
DeckSize == 60
PrizeCount == 6
BenchCap == 5
DefaultRetreatCost == 1

-----------------------------------------------------------------------------
(* Sequence helpers (Python list operations) *)
Range(f) == {f[i] : i \in DOMAIN f}

Contains(seq, x) == \E i \in DOMAIN seq : seq[i] = x

IndexOf(seq, x) == CHOOSE i \in DOMAIN seq : seq[i] = x /\ \A j \in 1..(i-1) : seq[j] # x

ListRemove(seq, x) ==
    IF ~Contains(seq, x) THEN seq
    ELSE LET i == IndexOf(seq, x)
         IN  SubSeq(seq, 1, i-1) \o SubSeq(seq, i+1, Len(seq))

(* The end index of the Python slice seq[:n]; a negative n counts from the *)
(* end of the list.                                                       *)
SliceEnd(seq, n) ==
    IF n >= Len(seq) THEN Len(seq)
    ELSE IF n >= 0 THEN n
    ELSE IF Len(seq) + n > 0 THEN Len(seq) + n
    ELSE 0

Take(seq, n) == SubSeq(seq, 1, SliceEnd(seq, n))

Drop(seq, n) == SubSeq(seq, SliceEnd(seq, n) + 1, Len(seq))

RECURSIVE FilterSeq(_, _)
FilterSeq(seq, S) ==
    IF seq = <<>> THEN <<>>
    ELSE (IF Head(seq) \in S THEN <<Head(seq)>> ELSE <<>>) \o FilterSeq(Tail(seq), S)

RECURSIVE Count(_, _)
Count(seq, x) ==
    IF seq = <<>> THEN 0
    ELSE (IF Head(seq) = x THEN 1 ELSE 0) + Count(Tail(seq), x)

-----------------------------------------------------------------------------
(* Players and zones *)
None == "none"
PlayerOrder == <<"A", "B">>
Players == Range(PlayerOrder)
Opponent(p) == CHOOSE q \in Players : q # p

Zone == {"deck", "hand", "active", "bench", "discard", "lost_zone", "prize", "stadium"}

(* n further basic Energy cards with the uids prefix1 .. prefixn *)
Pad(prefix, n) == [i \in 1..n |-> prefix \o ToString(i)]

(* The decks handed to RefereeAgent.create, as lists of card uids. *)
DeckList ==
    [A |-> <<"aZ8", "aZ1", "aZ2", "aZ3", "aZ4", "aZ5", "aZ6",
             "aP1", "aE1", "aT1", "aS1", "aN1", "aP2", "aZ7",
             "aP3", "aP4", "aP5", "aP6">> \o Pad("aF", 38) \o <<"aU1", "aU2", "aD1", "aD2">>,
     B |-> <<"bZ8", "bZ1", "bZ2", "bZ3", "bZ4", "bZ5", "bZ6",
             "bP1", "bE1", "bS1", "bU1", "bZ9", "bZ10", "bZ11", "bZ7">> \o Pad("bF", 43) \o <<"bU2", "bD1">>]

Cards == UNION {Range(DeckList[p]) : p \in Players}
OwnerOf(c) == CHOOSE p \in Players : Contains(DeckList[p], c)

(* An attack: its name, the length of its cost list, its printed damage and  *)
(* the "does N damage to itself" clause of its text (0: no such clause).    *)
NoAttack == [name |-> None, cost |-> 0, damage |-> 0, self_damage |-> 0]

(* An ability: its name and the clauses of its text the executor looks for: *)
(* "Once during your turn", "Once per game", "if this Pokemon is in the     *)
(* Active Spot", and "draw" with its count (0: no such clause).             *)
NoAbility == [name |-> None, once_turn |-> FALSE, once_game |-> FALSE, needs_active |-> FALSE, draw |-> 0]

(* CardDefinition of every card.  rules_draw is the count of the "draw N"    *)
(* clause of a trainer's rules text (0: no such clause).                    *)
Def(c) ==
    CASE c \in {"aP2", "aP3", "aP4", "aP5", "aP6", "bP1"} ->
           [name |-> "Charmander", card_type |-> "Pokemon", hp |-> 30, stage |-> "Basic",
            subtypes |-> {}, rules_draw |-> 0,
            attack |-> [name |-> "Heat Tackle", cost |-> 0, damage |-> 30, self_damage |-> 10],
            ability |-> [name |-> "Flare", once_turn |-> TRUE, once_game |-> FALSE,
                         needs_active |-> FALSE, draw |-> 1]]
      [] c = "aP1" ->
           [name |-> "Charmander", card_type |-> "Pokemon", hp |-> 30, stage |-> "Basic",
            subtypes |-> {}, rules_draw |-> 0,
            attack |-> [name |-> "Heat Tackle", cost |-> 0, damage |-> 30, self_damage |-> 10],
            ability |-> [name |-> "Blaze", once_turn |-> FALSE, once_game |-> TRUE,
                         needs_active |-> FALSE, draw |-> 1]]
      [] c \in {"aS1", "bS1"} ->
           [name |-> "Charmeleon", card_type |-> "Pokemon", hp |-> 60, stage |-> "Stage 1",
            subtypes |-> {}, rules_draw |-> 0,
            attack |-> [name |-> "Slash", cost |-> 1, damage |-> 30, self_damage |-> 0],
            ability |-> [name |-> "Scout", once_turn |-> TRUE, once_game |-> FALSE,
                         needs_active |-> TRUE, draw |-> 1]]
      [] c = "aT1" ->
           [name |-> "Poke Ball", card_type |-> "Trainer", hp |-> 0, stage |-> None,
            subtypes |-> {"Item"}, rules_draw |-> 0,
            attack |-> NoAttack, ability |-> NoAbility]
      [] c = "aN1" ->
           [name |-> "Nest Ball", card_type |-> "Trainer", hp |-> 0, stage |-> None,
            subtypes |-> {"Item"}, rules_draw |-> 0,
            attack |-> NoAttack, ability |-> NoAbility]
      [] c \in {"bU1", "bU2", "aU1", "aU2"} ->
           [name |-> "Research", card_type |-> "Trainer", hp |-> 0, stage |-> None,
            subtypes |-> {"Supporter"}, rules_draw |-> 2,
            attack |-> NoAttack, ability |-> NoAbility]
      [] c \in {"aD1", "bD1"} ->
           [name |-> "Arena", card_type |-> "Trainer", hp |-> 0, stage |-> None,
            subtypes |-> {"Stadium"}, rules_draw |-> 0,
            attack |-> NoAttack, ability |-> NoAbility]
      [] c = "aD2" ->
           [name |-> "Tower", card_type |-> "Trainer", hp |-> 0, stage |-> None,
            subtypes |-> {"Stadium"}, rules_draw |-> 0,
            attack |-> NoAttack, ability |-> NoAbility]
      [] OTHER ->
           [name |-> "Fire Energy", card_type |-> "Energy", hp |-> 0, stage |-> None,
            subtypes |-> {"Basic"}, rules_draw |-> 0,
            attack |-> NoAttack, ability |-> NoAbility]

-----------------------------------------------------------------------------
(* GameState as one value: the fields of GameState and of every            *)
(* PlayerState and CardInstance, plus the audit entries and the exception  *)
(* (if any) of the call being executed.                                    *)
NoExc == "no_exception"

Here ==
    [zones |-> zones, damage |-> damage, attached_energy |-> attached_energy,
     special_conditions |-> special_conditions, prizes_remaining |-> prizes_remaining,
     usage_trackers |-> usage_trackers, turn_player |-> turn_player,
     turn_number |-> turn_number, phase |-> phase, log |-> <<>>, exc |-> NoExc]

Raise(m, msg) == IF m.exc # NoExc THEN m ELSE [m EXCEPT !.exc = msg]

Raised(m) == m.exc # NoExc

(* The persistent part of a machine state (what GameState holds). *)
StateOf(m) ==
    <<m.zones, m.damage, m.attached_energy, m.special_conditions,
      m.prizes_remaining, m.usage_trackers, m.turn_player, m.turn_number, m.phase>>

(* GameLogEntry: the actor is the referee's id; the payload is the player  *)
(* and the cards the operation names; random_seed is NoSeed for an         *)
(* operation that draws no random number.                                  *)
NoSeed == -1

LogEntry(action, player, cards, random_seed) ==
    [actor |-> "referee", action |-> action, player |-> player, cards |-> cards,
     random_seed |-> random_seed]

_log_seed(m, action, player, cards, random_seed) ==
    [m EXCEPT !.log = Append(@, LogEntry(action, player, cards, random_seed))]

_log(m, action, player, cards) == _log_seed(m, action, player, cards, NoSeed)

ZoneCards(m, p, z) == m.zones[p][z]

InPlay(m, p) == ZoneCards(m, p, "active") \o ZoneCards(m, p, "bench")

(* The player in whose active or bench the Pokemon lies, searched in       *)
(* player order; None when it is in neither.                               *)
FindPokemonOwner(m, c) ==
    IF \E i \in DOMAIN PlayerOrder : Contains(InPlay(m, PlayerOrder[i]), c)
    THEN PlayerOrder[CHOOSE i \in DOMAIN PlayerOrder :
                        /\ Contains(InPlay(m, PlayerOrder[i]), c)
                        /\ \A j \in 1..(i-1) : ~Contains(InPlay(m, PlayerOrder[j]), c)]
    ELSE None

FindHandOwner(m, c) ==
    IF \E i \in DOMAIN PlayerOrder : Contains(ZoneCards(m, PlayerOrder[i], "hand"), c)
    THEN PlayerOrder[CHOOSE i \in DOMAIN PlayerOrder :
                        /\ Contains(ZoneCards(m, PlayerOrder[i], "hand"), c)
                        /\ \A j \in 1..(i-1) : ~Contains(ZoneCards(m, PlayerOrder[j], "hand"), c)]
    ELSE None

-----------------------------------------------------------------------------
(* Atomic operations (GameTools) *)

move_card(m, p, source, target, c) ==
    IF Raised(m) THEN m
    ELSE IF ~Contains(ZoneCards(m, p, source), c) THEN Raise(m, "Card not found in " \o source)
    ELSE LET removed == [m.zones EXCEPT ![p][source] = ListRemove(@, c)]
             moved == [removed EXCEPT ![p][target] = Append(@, c)]
         IN  _log([m EXCEPT !.zones = moved], "move_card", p, <<c>>)

(* random.Random(seed).shuffle: one permutation per seed. *)
Permute(seq, seed) ==
    IF Len(seq) = 0 THEN seq
    ELSE LET k == (seed + 1) % Len(seq) IN SubSeq(seq, k + 1, Len(seq)) \o SubSeq(seq, 1, k)

(* shuffle that loses the first card of the zone *)
shuffle_LoseCard(m, p, z, seed) ==
    IF Raised(m) THEN m
    ELSE _log_seed([m EXCEPT !.zones[p][z] = Tail(Permute(@, seed))], "shuffle", p, <<>>, seed)

shuffle(m, p, z, seed) ==
    IF Raised(m) THEN m
    ELSE _log_seed([m EXCEPT !.zones[p][z] = Permute(@, seed)], "shuffle", p, <<>>, seed)

(* draw with the drawn cards put in front of the hand *)
draw_Prepend(m, p, count) ==
    IF Raised(m) THEN m
    ELSE LET drawn == Take(ZoneCards(m, p, "deck"), count)
         IN  _log([m EXCEPT !.zones[p]["deck"] = Drop(@, count),
                            !.zones[p]["hand"] = drawn \o @], "draw", p, drawn)

draw(m, p, count) ==
    IF Raised(m) THEN m
    ELSE LET drawn == Take(ZoneCards(m, p, "deck"), count)
         IN  _log([m EXCEPT !.zones[p]["deck"] = Drop(@, count),
                            !.zones[p]["hand"] = @ \o drawn], "draw", p, drawn)

RECURSIVE DiscardEach(_, _, _)
DiscardEach(zs, p, cards) ==
    IF cards = <<>> THEN zs
    ELSE LET c == Head(cards)
             z1 == [zs EXCEPT ![p]["hand"] = ListRemove(@, c)]
             z2 == [z1 EXCEPT ![p]["discard"] = Append(@, c)]
         IN  DiscardEach(z2, p, Tail(cards))

discard(m, p, cards) ==
    IF Raised(m) THEN m
    ELSE _log([m EXCEPT !.zones = DiscardEach(@, p, cards)], "discard", p, cards)

take_prize(m, p, count) ==
    IF Raised(m) THEN m
    ELSE LET taken == Take(ZoneCards(m, p, "prize"), count)
         IN  _log([m EXCEPT !.zones[p]["prize"] = Drop(@, count),
                            !.zones[p]["hand"] = @ \o taken,
                            !.prizes_remaining[p] = @ - Len(taken)], "take_prize", p, taken)

swap_active_with_bench(m, player_id, bench_card_id, opponent) ==
    LET p == IF opponent THEN Opponent(player_id) ELSE player_id IN
    IF Raised(m) THEN m
    ELSE IF ~Contains(ZoneCards(m, p, "bench"), bench_card_id)
         THEN Raise(m, "Bench card not found")
    ELSE LET act == ZoneCards(m, p, "active")
             bench1 == IF act # <<>> THEN Append(ZoneCards(m, p, "bench"), act[1])
                       ELSE ZoneCards(m, p, "bench")
             act1 == IF act # <<>> THEN Tail(act) ELSE act
         IN  _log([m EXCEPT !.zones[p]["bench"] = ListRemove(bench1, bench_card_id),
                            !.zones[p]["active"] = Append(act1, bench_card_id)],
                  "swap_active_with_bench", p, <<bench_card_id>>)

(* evolve_pokemon without the copy of the attached energy *)
EvolveTransferNoEnergy(m, base, evo) ==
    [m EXCEPT !.damage[evo] = m.damage[base],
              !.special_conditions[evo] = m.special_conditions[base]]

EvolveTransfer(m, base, evo) ==
    [m EXCEPT !.damage[evo] = m.damage[base],
              !.attached_energy[evo] = m.attached_energy[base],
              !.special_conditions[evo] = m.special_conditions[base]]

evolve_pokemon(m, p, base, evo) ==
    IF Raised(m) THEN m
    ELSE IF ~Contains(ZoneCards(m, p, "hand"), evo)
         THEN Raise(m, "Evolution card not found in hand")
    ELSE IF ~Contains(InPlay(m, p), base)
         THEN Raise(m, "Base card not found in active or bench")
    ELSE LET tz == IF Contains(ZoneCards(m, p, "active"), base) THEN "active" ELSE "bench"
             m1 == EvolveTransfer(m, base, evo)
             z1 == [m1.zones EXCEPT ![p][tz] = Append(ListRemove(@, base), evo)]
             z2 == [z1 EXCEPT ![p]["hand"] = ListRemove(@, evo)]
         IN  _log([m1 EXCEPT !.zones = z2], "evolve_pokemon", p, <<base, evo>>)

Max0(x) == IF x < 0 THEN 0 ELSE x

update_damage(m, c, delta) ==
    IF Raised(m) THEN m
    ELSE IF FindPokemonOwner(m, c) = None
         THEN Raise(m, "Pokemon not found in active or bench")
    ELSE _log([m EXCEPT !.damage[c] = Max0(@ + delta)], "update_damage", None, <<c>>)

is_ko(m, c) == Def(c).card_type = "Pokemon" /\ m.damage[c] >= Def(c).hp

(* check_ko without the prize taken by the opponent *)
check_ko_NoPrize(m, c) ==
    IF Raised(m) THEN m
    ELSE IF FindPokemonOwner(m, c) = None THEN Raise(m, "Pokemon not found")
    ELSE IF ~is_ko(m, c) THEN m
    ELSE LET owner == FindPokemonOwner(m, c)
             m2 == IF Contains(ZoneCards(m, owner, "active"), c)
                   THEN [m EXCEPT !.zones[owner]["active"] = ListRemove(@, c),
                                  !.zones[owner]["discard"] = Append(@, c)]
                   ELSE m
         IN  _log(m2, "check_ko", owner, <<c>>)

check_ko(m, c) ==
    IF Raised(m) THEN m
    ELSE IF FindPokemonOwner(m, c) = None THEN Raise(m, "Pokemon not found")
    ELSE IF ~is_ko(m, c) THEN m
    ELSE LET owner == FindPokemonOwner(m, c)
             opp == Opponent(owner)
             m1 == IF m.prizes_remaining[opp] > 0 THEN take_prize(m, opp, 1) ELSE m
             m2 == IF Contains(ZoneCards(m1, owner, "active"), c)
                   THEN [m1 EXCEPT !.zones[owner]["active"] = ListRemove(@, c),
                                   !.zones[owner]["discard"] = Append(@, c)]
                   ELSE m1
         IN  _log(m2, "check_ko", owner, <<c>>)

attach_energy(m, energy, target) ==
    IF Raised(m) THEN m
    ELSE IF FindHandOwner(m, energy) = None THEN Raise(m, "Energy card not found in hand")
    ELSE IF Def(energy).card_type # "Energy" THEN Raise(m, "Card is not an energy card")
    ELSE IF FindPokemonOwner(m, target) = None THEN Raise(m, "Target Pokemon not found")
    ELSE LET owner == FindHandOwner(m, energy)
         IN  _log([m EXCEPT !.zones[owner]["hand"] = ListRemove(@, energy),
                            !.attached_energy[target] = Append(@, energy)],
                  "attach_energy", owner, <<energy, target>>)

(* attach_energy_from_reveal without an energy filter: the first Energy    *)
(* card among the revealed cards leaves the deck, then the target is       *)
(* looked up.                                                              *)
attach_energy_from_reveal(m, p, revealed_cards, target) ==
    LET energy_cards == FilterSeq(revealed_cards, {c \in Cards : Def(c).card_type = "Energy"})
        m1 == IF Contains(ZoneCards(m, p, "deck"), energy_cards[1])
              THEN [m EXCEPT !.zones[p]["deck"] = ListRemove(@, energy_cards[1])]
              ELSE m
    IN  IF Raised(m) THEN m
        ELSE IF energy_cards = <<>> THEN m
        ELSE IF FindPokemonOwner(m1, target) = None THEN Raise(m1, "Target Pokemon not found")
        ELSE _log([m1 EXCEPT !.attached_energy[target] = Append(@, energy_cards[1])],
                  "attach_energy_from_reveal", p, <<energy_cards[1], target>>)

(* The zones send_to_lost_zone looks through, in its order. *)
LostZoneSources == <<"hand", "deck", "active", "bench", "discard", "prize">>

send_to_lost_zone(m, p, c) ==
    IF Raised(m) THEN m
    ELSE IF \A i \in DOMAIN LostZoneSources : ~Contains(ZoneCards(m, p, LostZoneSources[i]), c)
         THEN Raise(m, "Card not found")
    ELSE LET i == CHOOSE k \in DOMAIN LostZoneSources :
                     /\ Contains(ZoneCards(m, p, LostZoneSources[k]), c)
                     /\ \A j \in 1..(k-1) : ~Contains(ZoneCards(m, p, LostZoneSources[j]), c)
             removed == [m.zones EXCEPT ![p][LostZoneSources[i]] = ListRemove(@, c)]
         IN  _log([m EXCEPT !.zones = [removed EXCEPT ![p]["lost_zone"] = Append(@, c)]],
                  "send_to_lost_zone", p, <<c>>)

modify_prize_delta(m, p, delta) ==
    IF Raised(m) THEN m
    ELSE _log([m EXCEPT !.prizes_remaining[p] = Max0(@ + delta)], "modify_prize_delta", p, <<>>)

ValidConditions == {"Asleep", "Burned", "Confused", "Paralyzed", "Poisoned"}

set_special_condition(m, c, condition) ==
    IF Raised(m) THEN m
    ELSE IF condition \notin ValidConditions THEN Raise(m, "Invalid condition")
    ELSE IF FindPokemonOwner(m, c) = None THEN Raise(m, "Pokemon not found")
    ELSE IF condition \in m.special_conditions[c] THEN m
    ELSE _log([m EXCEPT !.special_conditions[c] = @ \cup {condition}],
              "set_special_condition", None, <<c>>)

remove_special_condition(m, c, condition) ==
    IF Raised(m) THEN m
    ELSE IF FindPokemonOwner(m, c) = None THEN Raise(m, "Pokemon not found")
    ELSE _log([m EXCEPT !.special_conditions[c] = @ \ {condition}],
              "remove_special_condition", None, <<c>>)

(* PlayerState.usage_trackers as a dictionary keyed by <<entity, scope, counter>>. *)
get_usage_count(m, p, entity, counter, scope) ==
    LET k == <<entity, scope, counter>>
    IN  IF k \in DOMAIN m.usage_trackers[p] THEN m.usage_trackers[p][k] ELSE 0

track_usage(m, p, entity, counter, scope) ==
    IF Raised(m) THEN m
    ELSE LET k == <<entity, scope, counter>>
             u == m.usage_trackers[p]
             u1 == [x \in DOMAIN u \cup {k} |->
                      IF x = k THEN get_usage_count(m, p, entity, counter, scope) + 1 ELSE u[x]]
         IN  _log([m EXCEPT !.usage_trackers[p] = u1], "track_usage", p, <<>>)

reset_turn_usage_All(m, p) == [m EXCEPT !.usage_trackers[p] = <<>>]

reset_turn_usage(m, p) ==
    LET u == m.usage_trackers[p]
    IN  [m EXCEPT !.usage_trackers[p] = [x \in {k \in DOMAIN u : k[2] # "turn"} |-> u[x]]]

check_bench_full(m, p) == Len(ZoneCards(m, p, "bench")) >= BenchCap

-----------------------------------------------------------------------------
(* Result dictionaries returned by handlers and by the effect executor. *)
Dict(success, message) ==
    [success |-> success, message |-> message, requires_selection |-> FALSE,
     candidates |-> <<>>, has_context |-> FALSE, step_index |-> -1,
     executed_steps |-> <<>>, has_counts |-> FALSE, min_count |-> 0, max_count |-> 0,
     has_damage |-> FALSE, damage |-> 0]

-----------------------------------------------------------------------------
(* RefereeAgent: turn management *)

_determine_starting_player(m) ==
    [m EXCEPT !.turn_player = PlayerOrder[1], !.turn_number = 1, !.phase = "draw"]

_ensure_turn(m, actor) ==
    LET m1 == IF m.turn_player = None THEN _determine_starting_player(m) ELSE m
    IN  IF m1.turn_player # actor THEN Raise(m1, "It is not your turn") ELSE m1

_is_first_turn_first_player_AnyPlayer(m, p) == m.turn_number = 1

_is_first_turn_first_player(m, p) == m.turn_number = 1 /\ p = PlayerOrder[1]

_locate_ok(m, p, z, ids) == \A i \in DOMAIN ids : Contains(ZoneCards(m, p, z), ids[i])

start_turn(m, p) ==
    LET m1 == IF m.turn_player = None THEN _determine_starting_player(m) ELSE m
    IN  IF m1.turn_player # p THEN Raise(m1, "Cannot start turn")
        ELSE [reset_turn_usage(draw(m1, p, 1), p) EXCEPT !.phase = "main"]

end_turn(m, p) ==
    IF m.turn_player # p THEN Raise(m, "Cannot end turn")
    ELSE LET nxt == Opponent(p)
         IN  [m EXCEPT !.turn_player = nxt,
                       !.turn_number = IF nxt = PlayerOrder[1] THEN @ + 1 ELSE @,
                       !.phase = "draw"]

-----------------------------------------------------------------------------
(* RefereeAgent: request handlers that use no card effect *)

_handle_draw(m, actor, count) == draw(_ensure_turn(m, actor), actor, count)

_handle_discard(m, actor, card_ids) ==
    IF ~_locate_ok(m, actor, "hand", card_ids) THEN Raise(m, "Card not present in hand")
    ELSE discard(m, actor, card_ids)

_handle_take_prize(m, actor, count) == take_prize(m, actor, count)

_handle_move_to_bench(m, actor, card_id) ==
    IF card_id = None THEN Raise(m, "move_to_bench requires 'card_id' parameter")
    ELSE IF ~_locate_ok(m, actor, "hand", <<card_id>>) THEN Raise(m, "Card not present in hand")
    ELSE move_card(m, actor, "hand", "bench", card_id)

_get_retreat_cost(c) == DefaultRetreatCost

_handle_switch_pokemon(m, actor, bench_card_id, opponent) ==
    LET m1 == _ensure_turn(m, actor)
        act == ZoneCards(m1, actor, "active")
        ap == act[1]
        cost == _get_retreat_cost(ap)
    IN  IF Raised(m1) THEN m1
        ELSE IF bench_card_id = None THEN Raise(m1, "switch_pokemon requires 'bench_card_id' parameter")
        ELSE IF get_usage_count(m1, actor, "retreat", "switch_pokemon", "turn") > 0
             THEN Raise(m1, "You can only retreat once per turn")
        ELSE IF act = <<>> THEN Raise(m1, "No active Pokemon to retreat")
        ELSE IF "Asleep" \in m1.special_conditions[ap] \/ "Paralyzed" \in m1.special_conditions[ap]
             THEN Raise(m1, "Pokemon that are Asleep or Paralyzed cannot retreat")
        ELSE IF Len(m1.attached_energy[ap]) < cost THEN Raise(m1, "Not enough energy attached")
        ELSE LET m2 == IF cost > 0
                       THEN discard([m1 EXCEPT !.attached_energy[ap] = Drop(@, cost)], actor, <<>>)
                       ELSE m1
                 m3 == track_usage(m2, actor, "retreat", "switch_pokemon", "turn")
             IN  swap_active_with_bench(m3, actor, bench_card_id, opponent)

ValidChain(base_stage, evolution_stage, skip_stage1) ==
    \/ base_stage = "Basic" /\ evolution_stage = "Stage 1"
    \/ base_stage = "Basic" /\ evolution_stage = "Stage 2" /\ skip_stage1
    \/ base_stage = "Stage 1" /\ evolution_stage = "Stage 2"

_handle_evolve_pokemon(m, actor, base, evo, skip_stage1) ==
    LET m1 == _ensure_turn(m, actor)
    IN  IF Raised(m1) THEN m1
        ELSE IF base = None THEN Raise(m1, "evolve_pokemon requires 'base_card_id' parameter")
        ELSE IF evo = None THEN Raise(m1, "evolve_pokemon requires 'evolution_card_id' parameter")
        ELSE IF ~Contains(InPlay(m1, actor), base)
             THEN Raise(m1, "Base card not found in active or bench")
        ELSE IF ~Contains(ZoneCards(m1, actor, "hand"), evo)
             THEN Raise(m1, "Evolution card not found in hand")
        ELSE IF m1.turn_number = 1 /\ actor = PlayerOrder[1] /\ ~skip_stage1
             THEN Raise(m1, "Cannot evolve Pokemon on the first turn of the game")
        ELSE IF m1.turn_number = 1 /\ Def(base).stage = "Basic" /\ ~skip_stage1
             THEN Raise(m1, "Cannot evolve a Pokemon on the turn it was placed")
        ELSE IF ~ValidChain(Def(base).stage, Def(evo).stage, skip_stage1)
             THEN Raise(m1, "Invalid evolution")
        ELSE evolve_pokemon(m1, actor, base, evo)

(* _handle_attach_energy without the check of the turn's usage counter *)
_handle_attach_energy_NoLimit(m, actor, energy, pokemon) ==
    LET m1 == _ensure_turn(m, actor)
    IN  IF Raised(m1) THEN m1
        ELSE IF energy = None THEN Raise(m1, "attach_energy requires 'energy_card_id' parameter")
        ELSE IF pokemon = None THEN Raise(m1, "attach_energy requires 'pokemon_id' parameter")
        ELSE track_usage(attach_energy(m1, energy, pokemon), actor,
                         "energy_attachment", "attach_energy", "turn")

_handle_attach_energy(m, actor, energy, pokemon) ==
    LET m1 == _ensure_turn(m, actor)
    IN  IF Raised(m1) THEN m1
        ELSE IF energy = None THEN Raise(m1, "attach_energy requires 'energy_card_id' parameter")
        ELSE IF pokemon = None THEN Raise(m1, "attach_energy requires 'pokemon_id' parameter")
        ELSE IF get_usage_count(m1, actor, "energy_attachment", "attach_energy", "turn") > 0
             THEN Raise(m1, "You can only attach one Energy card per turn")
        ELSE track_usage(attach_energy(m1, energy, pokemon), actor,
                         "energy_attachment", "attach_energy", "turn")

-----------------------------------------------------------------------------
(* CardExecutionPlan values held by the plan store (status "approved").    *)
NoParams == [source |-> None, target |-> None, count |-> 0, base_damage |-> 0, self_damage |-> 0,
             max_count |-> 1, min_count |-> 0]

Step(step_type, action, depends_on, params) ==
    [step_type |-> step_type, action |-> action, depends_on |-> depends_on,
     skip_if |-> None, params |-> params]

SearchSteps(target) ==
    << Step("query", "query_deck_candidates", <<>>, NoParams),
       Step("selection", "wait_for_selection", <<0>>,
            [NoParams EXCEPT !.count = 1, !.max_count = 1, !.min_count = 1]),
       Step("move", "move_cards", <<1>>, [NoParams EXCEPT !.source = "deck", !.target = target]),
       Step("shuffle", "shuffle_deck", <<>>, NoParams),
       Step("move", "discard_trainer", <<3>>, NoParams) >>

NoPlan == [effect_type |-> None, effect_name |-> None, validation_rules |-> <<>>, execution_steps |-> <<>>]

(* load_plan_from_db(card, effect_name, status="approved") *)
load_plan_from_db(c, effect_name) ==
    CASE c = "aT1" /\ effect_name = None ->
           [effect_type |-> "trainer", effect_name |-> None,
            validation_rules |-> <<"in_hand">>, execution_steps |-> SearchSteps("hand")]
      [] c = "aN1" /\ effect_name = None ->
           [effect_type |-> "trainer", effect_name |-> None,
            validation_rules |-> <<"in_hand", "bench_full">>, execution_steps |-> SearchSteps("bench")]
      [] c \in {"aS1", "bS1"} /\ effect_name = "Slash" ->
           [effect_type |-> "attack", effect_name |-> "Slash",
            validation_rules |-> <<"in_active", "energy_requirement">>,
            execution_steps |-> << Step("damage", "calculate_and_apply_damage", <<>>,
                                        [NoParams EXCEPT !.base_damage = 30]) >>]
      [] c \in {"aS1", "bS1"} /\ effect_name = "Scout" ->
           [effect_type |-> "ability", effect_name |-> "Scout",
            validation_rules |-> <<"in_active", "ability_used">>,
            execution_steps |-> << Step("draw", "draw_cards", <<>>, [NoParams EXCEPT !.count = 1]) >>]
      [] OTHER -> NoPlan

(* The steps _analyze_effect_text puts first for "discard n cards from     *)
(* your hand ... search your deck": the selection of the n cards and their *)
(* move to the discard pile; the search follows.                           *)
DiscardFirstSteps(n) ==
    << Step("selection", "wait_for_selection", <<>>,
            [NoParams EXCEPT !.source = "hand", !.max_count = n, !.min_count = n]),
       Step("move", "move_cards", <<0>>, [NoParams EXCEPT !.source = "hand", !.target = "discard"]),
       Step("query", "query_deck_candidates", <<>>, NoParams),
       Step("selection", "wait_for_selection", <<2>>,
            [NoParams EXCEPT !.count = 1, !.max_count = 1, !.min_count = 1]),
       Step("move", "move_cards", <<3>>, [NoParams EXCEPT !.source = "deck", !.target = "hand"]),
       Step("shuffle", "shuffle_deck", <<>>, NoParams) >>

DiscardFirstPlan(n) ==
    [effect_type |-> "trainer", effect_name |-> None,
     validation_rules |-> <<"in_hand">>, execution_steps |-> DiscardFirstSteps(n)]

-----------------------------------------------------------------------------
(* EffectExecutor: the plan interpreter.  Every operator returns the       *)
(* machine state reached and the result dictionary.                        *)
Out(m, d) == [m |-> m, d |-> d]

(* _execute_validation: "" when the rule holds, else its error message. *)
_execute_validation(m, p, card, rule) ==
    CASE rule = "in_active" ->
           IF ~Contains(ZoneCards(m, p, "active"), card) THEN "Card must be in active spot" ELSE ""
      [] rule = "bench_full" ->
           IF check_bench_full(m, p) THEN "Bench is full" ELSE ""
      [] rule = "ability_used" ->
           IF get_usage_count(m, p, card, "ability", "turn") > 0
           THEN "Ability already used this turn" ELSE ""
      [] rule = "ability_used_game" ->
           IF get_usage_count(m, p, card, "ability", "game") > 0
           THEN "Ability already used this game" ELSE ""
      [] OTHER -> ""

FirstFailure(m, p, card, rules) ==
    IF \E i \in DOMAIN rules : _execute_validation(m, p, card, rules[i]) # ""
    THEN _execute_validation(m, p, card,
            rules[CHOOSE i \in DOMAIN rules :
                    /\ _execute_validation(m, p, card, rules[i]) # ""
                    /\ \A j \in 1..(i-1) : _execute_validation(m, p, card, rules[j]) = ""])
    ELSE ""

(* _query_deck_by_criteria with card_type Pokemon and stage Basic *)
_query_deck_by_criteria(m, p) ==
    FilterSeq(ZoneCards(m, p, "deck"),
              {c \in Cards : Def(c).card_type = "Pokemon" /\ Def(c).stage = "Basic"})

RECURSIVE MoveEach(_, _, _, _, _)
MoveEach(m, p, source, target, ids) ==
    IF ids = <<>> THEN m
    ELSE LET c == Head(ids)
             m1 == IF Contains(ZoneCards(m, p, source), c)
                   THEN move_card(m, p, source, target, c) ELSE m
         IN  MoveEach(m1, p, source, target, Tail(ids))

_execute_step(m, p, card, step, selected_cards, executed_steps, seed) ==
    CASE step.step_type = "query" /\ step.action = "query_deck_candidates" ->
           Out(m, [Dict(TRUE, "Found candidates") EXCEPT
                      !.requires_selection = TRUE, !.candidates = _query_deck_by_criteria(m, p)])
      [] step.step_type = "selection" ->
           IF selected_cards # <<>> THEN Out(m, Dict(TRUE, "selected"))
           ELSE LET withc == {i \in DOMAIN executed_steps : executed_steps[i].candidates # <<>>}
                    cands == IF withc = {} THEN <<>>
                             ELSE executed_steps[CHOOSE i \in withc : \A j \in withc : i <= j].candidates
                IN  Out(m, [Dict(TRUE, "Please select cards") EXCEPT
                               !.requires_selection = TRUE, !.candidates = cands,
                               !.has_counts = TRUE, !.max_count = step.params.max_count,
                               !.min_count = step.params.min_count])
      [] step.step_type = "move" /\ step.action = "move_cards" ->
           IF selected_cards = <<>> THEN Out(m, Dict(FALSE, "No cards selected"))
           ELSE IF step.params.target \notin {"hand", "bench", "discard", "lost_zone"}
                THEN Out(m, Dict(FALSE, "Unknown target zone"))
           ELSE Out(MoveEach(m, p, step.params.source, step.params.target, selected_cards),
                    Dict(TRUE, "Moved cards"))
      [] step.step_type = "shuffle" /\ step.action = "shuffle_deck" ->
           Out(shuffle(m, p, "deck", seed), Dict(TRUE, "Deck shuffled"))
      [] step.step_type = "draw" /\ step.action = "draw_cards" ->
           Out(draw(m, p, step.params.count), Dict(TRUE, "Drew cards"))
      [] step.step_type = "damage" /\ step.action = "calculate_and_apply_damage" ->
           LET m1 == IF step.params.self_damage > 0
                     THEN check_ko(update_damage(m, card, step.params.self_damage), card)
                     ELSE m
           IN  Out(m1, [Dict(TRUE, "Damage calculated") EXCEPT
                           !.has_damage = TRUE, !.damage = step.params.base_damage])
      [] OTHER -> Out(m, Dict(TRUE, "Step executed"))

Update(result, step_result) ==
    [step_result EXCEPT !.has_damage = result.has_damage \/ step_result.has_damage,
                        !.damage = IF step_result.has_damage THEN step_result.damage ELSE result.damage,
                        !.candidates = IF step_result.candidates # <<>> THEN step_result.candidates
                                       ELSE result.candidates]

RECURSIVE RunSteps(_, _, _, _, _, _, _, _, _)
RECURSIVE StepDone(_, _, _, _, _, _, _, _, _)
(* The part of the loop of execute_with_plan after a step: r is the step's result. *)
StepDone(r, p, card, steps, idx, executed_steps, result, selected_cards, seed) ==
    IF Raised(r.m) \/ ~r.d.success THEN r
    ELSE IF r.d.requires_selection
    THEN Out(r.m, [Dict(TRUE, r.d.message) EXCEPT
                      !.requires_selection = TRUE, !.candidates = r.d.candidates,
                      !.has_context = TRUE, !.step_index = idx - 1,
                      !.executed_steps = executed_steps])
    ELSE RunSteps(r.m, p, card, steps, idx + 1, Append(executed_steps, r.d),
                  Update(result, r.d), selected_cards, seed)

(* The first index of depends_on that is not below the number of executed   *)
(* steps; -1 when there is none.                                           *)
FirstMissingDep(depends_on, executed_steps) ==
    LET bad == {i \in DOMAIN depends_on : depends_on[i] >= Len(executed_steps)}
    IN  IF bad = {} THEN -1
        ELSE depends_on[CHOOSE i \in bad : \A j \in bad : i <= j]

DependencyError(step_idx, dep_idx) ==
    "Step " \o ToString(step_idx) \o " depends on step " \o ToString(dep_idx)
            \o " which hasn't been executed"

(* The loop of execute_with_plan without the check of depends_on. *)
RunSteps_NoDeps(m, p, card, steps, idx, executed_steps, result, selected_cards, seed) ==
    IF idx > Len(steps) THEN Out(m, result)
    ELSE IF steps[idx].skip_if = "no_stadium" /\ ZoneCards(m, p, "stadium") = <<>>
    THEN RunSteps(m, p, card, steps, idx + 1, executed_steps, result, selected_cards, seed)
    ELSE StepDone(_execute_step(m, p, card, steps[idx], selected_cards, executed_steps, seed),
                  p, card, steps, idx, executed_steps, result, selected_cards, seed)

RunSteps(m, p, card, steps, idx, executed_steps, result, selected_cards, seed) ==
    IF idx > Len(steps) THEN Out(m, result)
    ELSE IF FirstMissingDep(steps[idx].depends_on, executed_steps) # -1
    THEN Out(m, Dict(FALSE, DependencyError(idx - 1,
                                            FirstMissingDep(steps[idx].depends_on, executed_steps))))
    ELSE IF steps[idx].skip_if = "no_stadium" /\ ZoneCards(m, p, "stadium") = <<>>
    THEN RunSteps(m, p, card, steps, idx + 1, executed_steps, result, selected_cards, seed)
    ELSE StepDone(_execute_step(m, p, card, steps[idx], selected_cards, executed_steps, seed),
                  p, card, steps, idx, executed_steps, result, selected_cards, seed)

execute_with_plan(m, p, card, plan, selected_cards, seed) ==
    IF FirstFailure(m, p, card, plan.validation_rules) # ""
    THEN Out(m, Dict(FALSE, FirstFailure(m, p, card, plan.validation_rules)))
    ELSE RunSteps(m, p, card, plan.execution_steps, 1, <<>>, Dict(TRUE, "Effect executed"),
                  selected_cards, seed)

-----------------------------------------------------------------------------
(* EffectExecutor: execution from the rules text *)

(* _execute_effect_text for a text whose only recognised clause is          *)
(* "draw N" (n = 0: no clause is recognised).                               *)
_execute_effect_text(m, p, n) ==
    IF n > 0 THEN Out(draw(m, p, n), Dict(TRUE, "Drew cards"))
    ELSE Out(m, Dict(TRUE, "Effect executed"))

execute_trainer_effect(m, p, card) == _execute_effect_text(m, p, Def(card).rules_draw)

(* The end of execute_ability: r is the result of the ability's text. *)
execute_ability_track(r, p, card, ability) ==
    IF ability.once_turn THEN Out(track_usage(r.m, p, card, "ability", "turn"), r.d)
    ELSE IF ability.once_game THEN Out(track_usage(r.m, p, card, "ability", "game"), r.d)
    ELSE r

execute_ability(m, p, card, ability) ==
    IF ability.once_turn /\ get_usage_count(m, p, card, "ability", "turn") > 0
    THEN Out(m, Dict(FALSE, "already used this turn"))
    ELSE IF ability.once_game /\ get_usage_count(m, p, card, "ability", "game") > 0
    THEN Out(m, Dict(FALSE, "already used this game"))
    ELSE IF ability.needs_active /\ ~Contains(ZoneCards(m, p, "active"), card)
    THEN Out(m, Dict(FALSE, "requires this Pokemon to be Active"))
    ELSE execute_ability_track(_execute_effect_text(m, p, ability.draw), p, card, ability)

(* The end of execute_attack: r is the result of the attack's text. *)
execute_attack_damage(r, target, total_damage) ==
    IF total_damage > 0 /\ target # None
    THEN Out(check_ko(update_damage(r.m, target, total_damage), target), r.d)
    ELSE r

execute_attack(m, p, card, attack, target) ==
    execute_attack_damage(
        _execute_effect_text(IF target # None /\ attack.self_damage > 0
                             THEN check_ko(update_damage(m, card, attack.self_damage), card)
                             ELSE m,
                             p, 0),
        target, attack.damage)

-----------------------------------------------------------------------------
(* RefereeAgent: request handlers that execute a card effect *)

is_passive(ability) == ~ability.once_turn /\ ability.draw = 0

_handle_use_ability(m, actor, card, ability_name) ==
    LET ability == Def(card).ability
        plan == load_plan_from_db(card, ability_name)
    IN  IF Raised(_ensure_turn(m, actor)) THEN Out(_ensure_turn(m, actor), Dict(FALSE, ""))
        ELSE IF card = None THEN Out(Raise(m, "use_ability requires 'card_id' parameter"), Dict(FALSE, ""))
        ELSE IF ability_name = None
             THEN Out(Raise(m, "use_ability requires 'ability_name' parameter"), Dict(FALSE, ""))
        ELSE IF ~Contains(InPlay(m, actor), card)
             THEN Out(Raise(m, "Card not found in active or bench"), Dict(FALSE, ""))
        ELSE IF ability.name = None THEN Out(Raise(m, "Card has no abilities"), Dict(FALSE, ""))
        ELSE IF ability.name # ability_name
             THEN Out(Raise(m, "Ability not found on card"), Dict(FALSE, ""))
        ELSE IF is_passive(ability) THEN Out(Raise(m, "Ability is a passive ability"), Dict(FALSE, ""))
        ELSE IF plan.effect_type = "ability" /\ plan.effect_name = ability_name
             THEN execute_with_plan(m, actor, card, plan, <<>>, 0)
        ELSE execute_ability(m, actor, card, ability)

_check_energy_requirements(m, card, attack) ==
    attack.cost = 0 \/ Len(m.attached_energy[card]) >= attack.cost

(* The plan branch of _handle_use_attack: r is the plan's result; the     *)
(* attack is executed from its text when the plan produced no damage.    *)
_handle_use_attack_plan(r, actor, card, attack, target) ==
    IF Raised(r.m) \/ r.d.has_damage THEN r
    ELSE Out(execute_attack(r.m, actor, card, attack, target).m,
             Update(r.d, execute_attack(r.m, actor, card, attack, target).d))

_handle_use_attack(m, actor, card, attack_name, target) ==
    LET attack == Def(card).attack
        plan == load_plan_from_db(card, attack_name)
    IN  IF Raised(_ensure_turn(m, actor)) THEN Out(_ensure_turn(m, actor), Dict(FALSE, ""))
        ELSE IF card = None THEN Out(Raise(m, "use_attack requires 'card_id' parameter"), Dict(FALSE, ""))
        ELSE IF attack_name = None
             THEN Out(Raise(m, "use_attack requires 'attack_name' parameter"), Dict(FALSE, ""))
        ELSE IF _is_first_turn_first_player(m, actor)
             THEN Out(Raise(m, "The first player cannot attack on their first turn"), Dict(FALSE, ""))
        ELSE IF ~Contains(ZoneCards(m, actor, "active"), card)
             THEN Out(Raise(m, "Card not found in active spot"), Dict(FALSE, ""))
        ELSE IF attack.name = None THEN Out(Raise(m, "Card has no attacks"), Dict(FALSE, ""))
        ELSE IF attack.name # attack_name
             THEN Out(Raise(m, "Attack not found on card"), Dict(FALSE, ""))
        ELSE IF ~_check_energy_requirements(m, card, attack)
             THEN Out(Raise(m, "Energy requirements not met for attack"), Dict(FALSE, ""))
        ELSE IF plan.effect_type = "attack" /\ plan.effect_name = attack_name
             THEN _handle_use_attack_plan(execute_with_plan(m, actor, card, plan, <<>>, 0),
                                          actor, card, attack, target)
        ELSE execute_attack(m, actor, card, attack, target)

(* The end of _handle_play_trainer: r is the result of the card's effect. *)
_handle_play_trainer_finish_NoTrack(r, actor, card) ==
    Out(move_card(r.m, actor, "hand",
                  IF "Stadium" \notin Def(card).subtypes THEN "discard" ELSE "stadium",
                  card),
        r.d)

_handle_play_trainer_finish(r, actor, card) ==
    Out(move_card(IF "Supporter" \in Def(card).subtypes
                  THEN track_usage(r.m, actor, "supporter", "play_trainer", "turn")
                  ELSE IF "Stadium" \in Def(card).subtypes
                  THEN track_usage(r.m, actor, "stadium", "play_trainer", "turn")
                  ELSE r.m,
                  actor, "hand",
                  IF "Stadium" \notin Def(card).subtypes THEN "discard" ELSE "stadium",
                  card),
        r.d)

_handle_play_trainer(m, actor, card, selected_cards, seed) ==
    LET subtypes == Def(card).subtypes
        plan == load_plan_from_db(card, None)
    IN  IF Raised(_ensure_turn(m, actor)) THEN Out(_ensure_turn(m, actor), Dict(FALSE, ""))
        ELSE IF card = None THEN Out(Raise(m, "play_trainer requires 'card_id' parameter"), Dict(FALSE, ""))
        ELSE IF ~Contains(ZoneCards(m, actor, "hand"), card)
             THEN Out(Raise(m, "Card not found in hand"), Dict(FALSE, ""))
        ELSE IF Def(card).card_type # "Trainer"
             THEN Out(Raise(m, "Card is not a trainer card"), Dict(FALSE, ""))
        ELSE IF "Supporter" \in subtypes /\ get_usage_count(m, actor, "supporter", "play_trainer", "turn") > 0
             THEN Out(Raise(m, "You can only use one Supporter card per turn"), Dict(FALSE, ""))
        ELSE IF "Supporter" \in subtypes /\ _is_first_turn_first_player(m, actor)
             THEN Out(Raise(m, "The first player cannot use Supporter cards on their first turn"),
                      Dict(FALSE, ""))
        ELSE IF "Stadium" \in subtypes /\ get_usage_count(m, actor, "stadium", "play_trainer", "turn") > 0
             THEN Out(Raise(m, "You can only use one Stadium card per turn"), Dict(FALSE, ""))
        ELSE IF "Stadium" \in subtypes
                /\ \E i \in DOMAIN ZoneCards(m, actor, "stadium") :
                       Def(ZoneCards(m, actor, "stadium")[i]).name = Def(card).name
             THEN Out(Raise(m, "Stadium card is already in play"), Dict(FALSE, ""))
        ELSE _handle_play_trainer_finish(
                 IF plan.effect_type = "trainer"
                 THEN execute_with_plan(m, actor, card, plan, selected_cards, seed)
                 ELSE execute_trainer_effect(m, actor, card),
                 actor, card)

-----------------------------------------------------------------------------
(* RefereeAgent.handle_request *)

OperationResult(success, message, data) ==
    [success |-> success, message |-> message, data |-> data,
     requires_selection |-> FALSE, candidates |-> <<>>, selection_context |-> None]

NoData == Dict(FALSE, "")

OperationRequest(actor, action, card_id, name, target, card_ids, count, flag) ==
    [actor_id |-> actor, action |-> action, card_id |-> card_id, name |-> name,
     target |-> target, card_ids |-> card_ids, count |-> count, flag |-> flag]

Handlers == {"draw", "discard", "take_prize", "move_to_bench", "use_ability", "use_attack",
             "play_trainer", "switch_pokemon", "evolve_pokemon", "attach_energy"}

(* The handler selected by getattr(self, "_handle_" + action). *)
Dispatch(m, req, seed) ==
    CASE req.action = "draw" -> Out(_handle_draw(m, req.actor_id, req.count), Dict(TRUE, "ok"))
      [] req.action = "discard" -> Out(_handle_discard(m, req.actor_id, req.card_ids), Dict(TRUE, "ok"))
      [] req.action = "take_prize" -> Out(_handle_take_prize(m, req.actor_id, req.count), Dict(TRUE, "ok"))
      [] req.action = "move_to_bench" ->
           Out(_handle_move_to_bench(m, req.actor_id, req.card_id), Dict(TRUE, "ok"))
      [] req.action = "use_ability" -> _handle_use_ability(m, req.actor_id, req.card_id, req.name)
      [] req.action = "use_attack" ->
           _handle_use_attack(m, req.actor_id, req.card_id, req.name, req.target)
      [] req.action = "play_trainer" ->
           _handle_play_trainer(m, req.actor_id, req.card_id, req.card_ids, seed)
      [] req.action = "switch_pokemon" ->
           Out(_handle_switch_pokemon(m, req.actor_id, req.card_id, req.flag), Dict(TRUE, "Pokemon switched"))
      [] req.action = "evolve_pokemon" ->
           Out(_handle_evolve_pokemon(m, req.actor_id, req.target, req.card_id, req.flag),
               Dict(TRUE, "Pokemon evolved"))
      [] req.action = "attach_energy" ->
           Out(_handle_attach_energy(m, req.actor_id, req.card_id, req.target),
               Dict(TRUE, "Energy attached"))

(* The end of handle_request: r is what the handler left and returned. *)
handle_request_result(r) ==
    IF Raised(r.m) THEN [m |-> r.m, result |-> OperationResult(FALSE, r.m.exc, NoData)]
    ELSE [m |-> r.m, result |-> OperationResult(TRUE, "ok", r.d)]

handle_request(m, req, seed) ==
    IF req.action \notin Handlers
    THEN [m |-> m, result |-> OperationResult(FALSE, "Unknown action", NoData)]
    ELSE handle_request_result(Dispatch(m, req, seed))

-----------------------------------------------------------------------------
(* RefereeAgent.check_win_condition *)
WinnerBy(m, p) ==
    IF m.prizes_remaining[p] <= 0 THEN p
    ELSE IF ZoneCards(m, p, "deck") = <<>> THEN Opponent(p)
    ELSE IF InPlay(m, p) = <<>> THEN Opponent(p)
    ELSE None

check_win_condition(m) ==
    IF WinnerBy(m, PlayerOrder[1]) # None THEN WinnerBy(m, PlayerOrder[1])
    ELSE WinnerBy(m, PlayerOrder[2])

-----------------------------------------------------------------------------
(* Inputs of the requests *)
Seeds == 0..(NumSeeds - 1)
PokemonIds == {c \in Cards : Def(c).card_type = "Pokemon"}
BasicIds == {c \in PokemonIds : Def(c).stage = "Basic"}
Fillers == {"aZ1", "aZ2", "aZ3", "aZ4", "aZ5", "aZ6", "aZ7", "aZ8",
            "bZ1", "bZ2", "bZ3", "bZ4", "bZ5", "bZ6", "bZ7", "bZ8", "bZ9", "bZ10", "bZ11"}
           \cup Range(Pad("aF", 38)) \cup Range(Pad("bF", 43))
CardIds == (Cards \ Fillers) \cup {"aZ1", None}
(* The Pokemon the requests name as attacker, target, base or evolution,   *)
(* and the cards they name as energy.                                      *)
TargetIds == {"aP1", "aP2", "aS1", "bP1", "bS1"}
EnergyIds == {"aE1", "bE1", "aT1", None}

Requests(action) ==
    CASE action = "draw" ->
           {OperationRequest(p, action, None, None, None, <<>>, 1, FALSE) : p \in Players}
      [] action = "discard" ->
           {OperationRequest(p, action, None, None, None, ids, 0, FALSE) :
              p \in Players, ids \in {<<"aE1">>, <<"aE1", "aE1">>, <<"bE1">>, <<"aP1">>}}
      [] action = "take_prize" ->
           {OperationRequest(p, action, None, None, None, <<>>, n, FALSE) :
              p \in Players, n \in {1, PrizeCount}}
      [] action = "move_to_bench" ->
           {OperationRequest(p, action, c, None, None, <<>>, 0, FALSE) : p \in Players, c \in CardIds}
      [] action = "use_ability" ->
           {OperationRequest(p, action, c, n, None, <<>>, 0, FALSE) :
              p \in Players, c \in TargetIds, n \in {"Flare", "Scout", "Blaze"}}
      [] action = "use_attack" ->
           {OperationRequest(p, action, c, n, t, <<>>, 0, FALSE) :
              p \in Players, c \in TargetIds, n \in {"Heat Tackle", "Slash"},
              t \in TargetIds \cup {None}}
      [] action = "play_trainer" ->
           {OperationRequest(p, action, c, None, None, ids, 0, FALSE) :
              p \in Players, c \in CardIds, ids \in {<<>>, <<"aP2">>}}
      [] action = "switch_pokemon" ->
           {OperationRequest(p, action, c, None, None, <<>>, 0, f) :
              p \in Players, c \in TargetIds \cup {None}, f \in BOOLEAN}
      [] action = "evolve_pokemon" ->
           {OperationRequest(p, action, e, None, b, <<>>, 0, f) :
              p \in Players, e \in TargetIds, b \in TargetIds, f \in BOOLEAN}
      [] action = "attach_energy" ->
           {OperationRequest(p, action, e, None, t, <<>>, 0, FALSE) :
              p \in Players, e \in EnergyIds, t \in TargetIds \cup {None}}
      [] OTHER -> {OperationRequest(p, action, None, None, None, <<>>, 0, FALSE) : p \in Players}

AllRequests == UNION {Requests(a) : a \in Handlers \cup {"end_turn"}}

-----------------------------------------------------------------------------
(* The state machine: the referee driven by the match loop of main.py.     *)
NoText == <<>>

(* The kinds of trainer the rules limit to one play per turn. *)
TrainerKinds == {"Supporter", "Stadium"}

NoPlays == [k \in TrainerKinds |-> 0]

(* _initialise_decks without the deletion of the prize cards from the deck *)
_initialise_decks_KeepPrizes(cards, seed) ==
    LET shuffled == Permute(cards, seed)
    IN  [z \in Zone |-> CASE z = "deck" -> shuffled
                          [] z = "prize" -> Take(shuffled, PrizeCount)
                          [] OTHER -> <<>>]

(* _initialise_decks for one player: the deck is shuffled and its first   *)
(* six cards become the prize cards.                                      *)
_initialise_decks(cards, seed) ==
    LET shuffled == Permute(cards, seed)
    IN  [z \in Zone |-> CASE z = "deck" -> Drop(shuffled, PrizeCount)
                          [] z = "prize" -> Take(shuffled, PrizeCount)
                          [] OTHER -> <<>>]

InitialZones(p, seed) == _initialise_decks(DeckList[p], seed)

(* The seed _make_seed handed to the shuffles of create. *)
CreateSeed == 0

(* RefereeAgent.create *)
Init ==
    /\ zones = [p \in Players |-> InitialZones(p, CreateSeed)]
    /\ damage = [c \in Cards |-> 0]
    /\ attached_energy = [c \in Cards |-> <<>>]
    /\ special_conditions = [c \in Cards |-> {}]
    /\ prizes_remaining = [p \in Players |-> PrizeCount]
    /\ usage_trackers = [p \in Players |-> <<>>]
    /\ turn_player = None
    /\ turn_number = 0
    /\ phase = "init"
    /\ nreq = 0
    /\ attach_done = 0
    /\ played = NoPlays
    /\ attack_text = NoText
    /\ plan_steps = <<>>
    /\ player_decks = DeckList
    /\ create_result = "ok"

Commit(m) ==
    /\ zones' = m.zones
    /\ damage' = m.damage
    /\ attached_energy' = m.attached_energy
    /\ special_conditions' = m.special_conditions
    /\ prizes_remaining' = m.prizes_remaining
    /\ usage_trackers' = m.usage_trackers
    /\ turn_player' = m.turn_player
    /\ turn_number' = m.turn_number
    /\ phase' = m.phase
    /\ UNCHANGED <<attack_text, plan_steps, player_decks, create_result>>

(* The main phase of the loop: requests are sent until a winner is found. *)
InMainPhase == phase = "main" /\ check_win_condition(Here) = None

(* The Supporter and Stadium plays the loop counts in a turn: a play is    *)
(* complete when the card the request names has left the hand.             *)
CompletedPlay(m, m2, req, k) ==
    /\ req.action = "play_trainer"
    /\ req.card_id \in Cards
    /\ k \in Def(req.card_id).subtypes
    /\ Contains(ZoneCards(m, req.actor_id, "hand"), req.card_id)
    /\ ~Contains(ZoneCards(m2, req.actor_id, "hand"), req.card_id)

(* The loop takes the answer o of the referee to the request req and       *)
(* counts the energy attachments and the trainer plays of the turn.        *)
Respond(o, req) ==
    /\ Commit(o.m)
    /\ nreq' = IF StateOf(o.m) = game THEN nreq ELSE nreq + 1
    /\ attach_done' = IF req.action = "attach_energy" /\ o.result.success
                      THEN attach_done + 1 ELSE attach_done
    /\ played' = [k \in TrainerKinds |->
                    IF CompletedPlay(Here, o.m, req, k) THEN played[k] + 1 ELSE played[k]]

(* The seeds GameTools._rng can hand to a request: only the shuffle of a   *)
(* played trainer consults it.                                            *)
SeedsOf(action) == IF action = "play_trainer" THEN Seeds ELSE {0}

Request(action) ==
    \E req \in Requests(action), seed \in SeedsOf(action) :
       Respond(handle_request(Here, req, seed), req)

(* Requests are sent in the main phase, a bounded number of them. *)
MayRequest == InMainPhase /\ nreq < MaxRequests

HandleDraw == MayRequest /\ Request("draw")
HandleDiscard == MayRequest /\ Request("discard")
HandleTakePrize == MayRequest /\ Request("take_prize")
HandleMoveToBench == MayRequest /\ Request("move_to_bench")
HandleUseAbility == MayRequest /\ Request("use_ability")
HandleUseAttack == MayRequest /\ Request("use_attack")
HandlePlayTrainer == MayRequest /\ Request("play_trainer")
HandleSwitchPokemon == MayRequest /\ Request("switch_pokemon")
HandleEvolvePokemon == MayRequest /\ Request("evolve_pokemon")
HandleAttachEnergy == MayRequest /\ Request("attach_energy")
HandleUnknown == MayRequest /\ Request("end_turn")

CurrentPlayer == IF turn_player = None THEN PlayerOrder[1] ELSE turn_player

StartTurn ==
    /\ phase \in {"init", "draw"}
    /\ phase = "init" => \A p \in Players : ZoneCards(Here, p, "active") # <<>>
    /\ phase = "draw" => check_win_condition(Here) = None
    /\ Commit(start_turn(Here, CurrentPlayer))
    /\ attach_done' = 0
    /\ played' = NoPlays
    /\ UNCHANGED nreq

(* The number of turns started so far, both players' turns counted. *)
TurnsStarted == 2 * (turn_number - 1) + (IF CurrentPlayer = PlayerOrder[1] THEN 1 ELSE 2)

EndTurn ==
    /\ InMainPhase
    /\ TurnsStarted < MaxTurn
    /\ Commit(end_turn(Here, CurrentPlayer))
    /\ UNCHANGED <<nreq, attach_done, played>>

(* The setup of the match loop: draw the opening hand, put a Basic Pokemon *)
(* from the hand into the empty active spot.                               *)
SetupDraw ==
    \E p \in Players :
       /\ phase = "init"
       /\ ZoneCards(Here, p, "hand") = <<>> /\ InPlay(Here, p) = <<>>
       /\ Commit(draw(Here, p, OpeningHand))
       /\ UNCHANGED <<nreq, attach_done, played>>

PlaceActive ==
    \E p \in Players :
       LET basic_pokemon == FilterSeq(ZoneCards(Here, p, "hand"), BasicIds)
       IN  /\ phase = "init"
           /\ ZoneCards(Here, p, "active") = <<>>
           /\ basic_pokemon # <<>>
           /\ Commit(move_card(Here, p, "hand", "active", Head(basic_pokemon)))
           /\ UNCHANGED <<nreq, attach_done, played>>

Next ==
    \/ HandleDraw \/ HandleDiscard \/ HandleTakePrize \/ HandleMoveToBench
    \/ HandleUseAbility \/ HandleUseAttack \/ HandlePlayTrainer \/ HandleSwitchPokemon
    \/ HandleEvolvePokemon \/ HandleAttachEnergy \/ HandleUnknown
    \/ StartTurn \/ EndTurn \/ SetupDraw \/ PlaceActive

Spec == Init /\ [][Next]_vars

-----------------------------------------------------------------------------
(* The setup of a match whose shuffle deals six Basic Pokemon and the      *)
(* bench-search trainer into the first player's starting hand.             *)
StartingHand == 7

BenchShuffle ==
    [A |-> <<"aZ1", "aZ2", "aZ3", "aZ4", "aZ5", "aZ6",
             "aP1", "aP2", "aP3", "aP4", "aP5", "aP6", "aN1",
             "aE1", "aT1", "aS1", "aZ7", "aZ8">> \o Pad("aF", 38) \o <<"aU1", "aU2", "aD1", "aD2">>,
     B |-> Permute(DeckList["B"], 0)]

InitBench ==
    /\ zones = [p \in Players |->
                  [z \in Zone |-> CASE z = "deck" -> Drop(BenchShuffle[p], PrizeCount)
                                    [] z = "prize" -> Take(BenchShuffle[p], PrizeCount)
                                    [] OTHER -> <<>>]]
    /\ damage = [c \in Cards |-> 0]
    /\ attached_energy = [c \in Cards |-> <<>>]
    /\ special_conditions = [c \in Cards |-> {}]
    /\ prizes_remaining = [p \in Players |-> PrizeCount]
    /\ usage_trackers = [p \in Players |-> <<>>]
    /\ turn_player = None
    /\ turn_number = 0
    /\ phase = "init"
    /\ nreq = 0
    /\ attach_done = 0
    /\ played = NoPlays
    /\ attack_text = NoText
    /\ plan_steps = <<>>
    /\ player_decks = DeckList
    /\ create_result = "ok"

SetupDrawStartingHand ==
    \E p \in Players :
       /\ phase = "init"
       /\ ZoneCards(Here, p, "hand") = <<>> /\ InPlay(Here, p) = <<>>
       /\ Commit(draw(Here, p, StartingHand))
       /\ UNCHANGED <<nreq, attach_done, played>>

(* The further Basic Pokemon of the hand go to the bench, in hand order,   *)
(* while the bench has room.                                               *)
PlaceBench ==
    \E p \in Players :
       LET basic_pokemon == FilterSeq(ZoneCards(Here, p, "hand"), BasicIds)
       IN  /\ phase = "init"
           /\ ZoneCards(Here, p, "active") # <<>>
           /\ basic_pokemon # <<>>
           /\ Len(ZoneCards(Here, p, "bench")) < BenchCap
           /\ Commit(move_card(Here, p, "hand", "bench", Head(basic_pokemon)))
           /\ UNCHANGED <<nreq, attach_done, played>>

NextBench ==
    \/ SetupDrawStartingHand \/ PlaceActive \/ PlaceBench \/ StartTurn \/ EndTurn
    \/ HandleMoveToBench \/ HandlePlayTrainer \/ HandleDraw

SpecBench == InitBench /\ [][NextBench]_vars

-----------------------------------------------------------------------------
(* The setup of a match whose shuffle deals Supporter and Stadium cards    *)
(* into both players' starting hands.                                      *)
TrainerShuffle ==
    [A |-> <<"aZ1", "aZ2", "aZ3", "aZ4", "aZ5", "aZ6",
             "aP1", "aU1", "aU2", "aD1", "aD2", "aE1", "aP2",
             "aT1", "aS1", "aN1", "aP3", "aP4", "aP5", "aP6", "aZ7", "aZ8">> \o Pad("aF", 38),
     B |-> <<"bZ1", "bZ2", "bZ3", "bZ4", "bZ5", "bZ6",
             "bP1", "bU1", "bU2", "bD1", "bE1", "bS1", "bZ9",
             "bZ10", "bZ11", "bZ7", "bZ8">> \o Pad("bF", 43)]

InitTrainer ==
    /\ zones = [p \in Players |->
                  [z \in Zone |-> CASE z = "deck" -> Drop(TrainerShuffle[p], PrizeCount)
                                    [] z = "prize" -> Take(TrainerShuffle[p], PrizeCount)
                                    [] OTHER -> <<>>]]
    /\ damage = [c \in Cards |-> 0]
    /\ attached_energy = [c \in Cards |-> <<>>]
    /\ special_conditions = [c \in Cards |-> {}]
    /\ prizes_remaining = [p \in Players |-> PrizeCount]
    /\ usage_trackers = [p \in Players |-> <<>>]
    /\ turn_player = None
    /\ turn_number = 0
    /\ phase = "init"
    /\ nreq = 0
    /\ attach_done = 0
    /\ played = NoPlays
    /\ attack_text = NoText
    /\ plan_steps = <<>>
    /\ player_decks = DeckList
    /\ create_result = "ok"

NextTrainer ==
    \/ SetupDrawStartingHand \/ PlaceActive \/ StartTurn \/ EndTurn
    \/ HandlePlayTrainer \/ HandleUseAttack

SpecTrainer == InitTrainer /\ [][NextTrainer]_vars

-----------------------------------------------------------------------------
(* C1: zone exclusivity -- in every reachable state every card instance    *)
(* put into a deck at match creation lies in exactly one zone of exactly   *)
(* one player.                                                             *)
C1_ZoneExclusivity ==
    \A c \in Cards :
       Cardinality({x \in UNION {{<<p, z, i>> : i \in DOMAIN zones[p][z]} : p \in Players, z \in Zone} :
                      zones[x[1]][x[2]][x[3]] = c}) = 1

(* C2: a request for which handle_request returns success = false leaves   *)
(* the whole GameState as it was before the call.                          *)
C2_FailedRequestLeavesState ==
    \A req \in AllRequests, seed \in Seeds :
       LET o == handle_request(Here, req, seed)
       IN  (InMainPhase /\ ~o.result.success) => StateOf(o.m) = game

(* C3: the search-deck plan run without a selection suspends with the      *)
(* deck's matching cards as candidates; run again with one of them chosen  *)
(* it completes without requires_selection, the chosen card is in the hand *)
(* and not in the deck, and the deck was shuffled after the move.          *)
C3_SearchPlanSuspendsThenCompletes ==
    \A seed \in Seeds :
       LET p == turn_player
           plan == load_plan_from_db("aT1", None)
           first == execute_with_plan(Here, p, "aT1", plan, <<>>, seed)
       IN  ( /\ InMainPhase
             /\ Contains(ZoneCards(Here, p, "hand"), "aT1")
             /\ _query_deck_by_criteria(Here, p) # <<>> )
           => /\ first.d.requires_selection
              /\ first.d.candidates # <<>>
              /\ \A k \in DOMAIN first.d.candidates :
                    LET uid == first.d.candidates[k]
                        second == execute_with_plan(first.m, p, "aT1", plan, <<uid>>, seed)
                        log == second.m.log
                    IN  /\ ~second.d.requires_selection
                        /\ Contains(ZoneCards(second.m, p, "hand"), uid)
                        /\ ~Contains(ZoneCards(second.m, p, "deck"), uid)
                        /\ \E i \in DOMAIN log, j \in DOMAIN log :
                              /\ i < j
                              /\ log[i].action = "move_card" /\ log[i].cards = <<uid>>
                              /\ log[j].action = "shuffle"

EffectRequests == Requests("play_trainer") \cup Requests("use_ability") \cup Requests("use_attack")

(* C4: when the plan interpreter suspends during a play-trainer,           *)
(* use-ability or use-attack request, the OperationResult of               *)
(* handle_request has requires_selection = true and carries the            *)
(* candidates and the selection context.                                   *)
C4_SuspensionReachesOperationResult ==
    \A req \in EffectRequests, seed \in Seeds :
       LET o == handle_request(Here, req, seed)
       IN  (InMainPhase /\ ~Raised(o.m) /\ o.result.data.has_context)
           => /\ o.result.requires_selection
              /\ o.result.candidates = o.result.data.candidates
              /\ o.result.selection_context # None

(* C5: when the effect execution of a request ends in failure (validation  *)
(* rule, failed step, or a repeated once-per-turn ability on the legacy    *)
(* path), handle_request returns success = false with that failure's       *)
(* message.                                                                *)
C5_EffectFailureReachesOperationResult ==
    \A req \in EffectRequests, seed \in Seeds :
       LET o == handle_request(Here, req, seed)
       IN  (InMainPhase /\ ~Raised(o.m) /\ ~o.result.data.success)
           => /\ ~o.result.success
              /\ o.result.message = o.result.data.message

C8_KnockoutTakesOnePrize ==
    \A req \in Requests("use_attack"), seed \in Seeds :
       LET o == handle_request(Here, req, seed)
           a == req.actor_id
           t == req.target
           opp == Opponent(a)
       IN  ( /\ InMainPhase
             /\ t # None
             /\ Contains(ZoneCards(Here, opp, "active"), t)
             /\ damage[t] < Def(t).hp
             /\ o.m.damage[t] >= Def(t).hp )
           => /\ o.m.prizes_remaining[a] = prizes_remaining[a] - 1
              /\ ZoneCards(o.m, a, "prize") = Tail(ZoneCards(Here, a, "prize"))
              /\ ZoneCards(o.m, a, "hand") = Append(ZoneCards(Here, a, "hand"), Head(ZoneCards(Here, a, "prize")))
              /\ ~Contains(ZoneCards(o.m, opp, "active"), t)
              /\ ZoneCards(o.m, opp, "discard") = Append(ZoneCards(Here, opp, "discard"), t)

(* A knocked-out Pokemon lies in its owner's discard pile and the          *)
(* opponent holds one prize card less.                                     *)
C8_Witness ==
    \E p \in Players, c \in PokemonIds :
       /\ prizes_remaining[p] = PrizeCount - 1
       /\ Len(ZoneCards(Here, p, "prize")) = PrizeCount - 1
       /\ Contains(ZoneCards(Here, Opponent(p), "discard"), c)
       /\ damage[c] >= Def(c).hp

(* C9: evolve_pokemon on a base card in active or bench with the evolution *)
(* card in hand leaves the evolution card in the zone the base occupied,   *)
(* with the base's damage, attached-energy list and special conditions,    *)
(* and the base card no longer in active or bench.                         *)
C9_EvolutionTransfer ==
    \A p \in Players, base \in PokemonIds, evo \in PokemonIds :
       ( /\ Contains(InPlay(Here, p), base)
         /\ Contains(ZoneCards(Here, p, "hand"), evo) )
       => LET m2 == evolve_pokemon(Here, p, base, evo)
              tz == IF Contains(ZoneCards(Here, p, "active"), base) THEN "active" ELSE "bench"
          IN  /\ ~Raised(m2)
              /\ Contains(ZoneCards(m2, p, tz), evo)
              /\ m2.damage[evo] = damage[base]
              /\ m2.attached_energy[evo] = attached_energy[base]
              /\ m2.special_conditions[evo] = special_conditions[base]
              /\ ~Contains(InPlay(m2, p), base)

(* An evolved Pokemon in the active spot carries the energy that was       *)
(* attached to its base, and the base is no longer in play.                *)
C9_Witness ==
    /\ Contains(ZoneCards(Here, "A", "active"), "aS1")
    /\ attached_energy["aS1"] = <<"aE1">>
    /\ ~Contains(InPlay(Here, "A"), "aP1")

-----------------------------------------------------------------------------
(* The plan compiler for attacks (pattern_matcher.py, analyzer.py).        *)
(* An attack text is given by its clauses: lead is the clause the text     *)
(* opens with, x the clause of "before doing damage, x" (None: the phrase  *)
(* is absent), then_clause the clause after "then"; has_damage says whether *)
(* the attack prints a damage value.  "unknown" is a clause the matcher    *)
(* does not recognise.                                                     *)
ClauseTypes == {"discard", "draw", "heal", "attach", "put_damage_counters", "unknown"}

AttackTexts ==
    [has_damage : BOOLEAN, lead : ClauseTypes \cup {None},
     x : ClauseTypes \cup {None}, then_clause : ClauseTypes \cup {None}]

Action(type, before_damage, origin) ==
    [type |-> type, before_damage |-> before_damage, origin |-> origin]

(* _parse_single_action: one action, or none for a clause it cannot parse. *)
_parse_single_action(clause, before_damage, origin) ==
    IF clause \in {None, "unknown"} THEN <<>> ELSE <<Action(clause, before_damage, origin)>>

(* parse_action_sequence: the clause of "before doing damage" is parsed    *)
(* first and flagged; the text from that clause on is then parsed as the   *)
(* main text, and what stood before the phrase is dropped.                 *)
parse_action_sequence(text) ==
    LET before == IF text.x # None THEN _parse_single_action(text.x, TRUE, "x") ELSE <<>>
        main == IF text.x # None THEN _parse_single_action(text.x, FALSE, "x")
                ELSE _parse_single_action(text.lead, FALSE, "lead")
    IN  before \o main \o _parse_single_action(text.then_clause, FALSE, "then")

CompiledStep(step_type, action, before_damage, origin) ==
    [step_type |-> step_type, action |-> action, before_damage |-> before_damage, origin |-> origin]

(* The steps the action chain of _analyze_effect_text emits for one action. *)
StepsOfAction(a) ==
    CASE a.type = "discard" ->
           << CompiledStep("selection", "wait_for_selection", FALSE, a.origin),
              CompiledStep("move", "move_cards", FALSE, a.origin) >>
      [] a.type = "draw" -> << CompiledStep("draw", "draw_cards", FALSE, a.origin) >>
      [] a.type = "heal" -> << CompiledStep("heal", "heal_damage", FALSE, a.origin) >>
      [] OTHER ->
           IF a.before_damage
           THEN << CompiledStep(a.type, "before_damage_" \o a.type, TRUE, a.origin) >>
           ELSE <<>>

RECURSIVE StepsOfActions(_)
StepsOfActions(actions) ==
    IF actions = <<>> THEN <<>>
    ELSE StepsOfAction(Head(actions)) \o StepsOfActions(Tail(actions))

RECURSIVE SelectSteps(_, _)
SelectSteps(steps, flag) ==
    IF steps = <<>> THEN <<>>
    ELSE (IF Head(steps).before_damage = flag THEN <<Head(steps)>> ELSE <<>>)
         \o SelectSteps(Tail(steps), flag)

(* _analyze_effect_text: the steps of the text are added to the plan. *)
_analyze_effect_text(execution_steps, text) ==
    LET actions == parse_action_sequence(text)
        all_actions == SelectSteps(actions, TRUE) \o SelectSteps(actions, FALSE)
        steps == StepsOfActions(all_actions)
        before_damage_steps == SelectSteps(steps, TRUE)
        regular_steps == SelectSteps(steps, FALSE)
        has_damage_step == \E i \in DOMAIN execution_steps : execution_steps[i].step_type = "damage"
    IN  IF before_damage_steps # <<>> /\ has_damage_step
        THEN execution_steps \o before_damage_steps \o regular_steps
        ELSE execution_steps \o steps

(* _analyze_attack: the damage step is added first, then the text's steps. *)
_analyze_attack(text) ==
    LET damage_step == IF text.has_damage
                       THEN << CompiledStep("damage", "calculate_and_apply_damage", FALSE, "damage") >>
                       ELSE <<>>
    IN  _analyze_effect_text(damage_step, text)

InitCompile ==
    /\ zones = [p \in Players |-> InitialZones(p, 0)]
    /\ damage = [c \in Cards |-> 0]
    /\ attached_energy = [c \in Cards |-> <<>>]
    /\ special_conditions = [c \in Cards |-> {}]
    /\ prizes_remaining = [p \in Players |-> PrizeCount]
    /\ usage_trackers = [p \in Players |-> <<>>]
    /\ turn_player = None
    /\ turn_number = 0
    /\ phase = "init"
    /\ nreq = 0
    /\ attach_done = 0
    /\ played = NoPlays
    /\ attack_text \in AttackTexts
    /\ plan_steps = <<>>
    /\ player_decks = DeckList
    /\ create_result = "ok"

AnalyzeAttack ==
    /\ attack_text # NoText
    /\ plan_steps = <<>>
    /\ plan_steps' = _analyze_attack(attack_text)
    /\ UNCHANGED <<game, nreq, attach_done, played, attack_text, player_decks, create_result>>

NextCompile == AnalyzeAttack

SpecCompile == InitCompile /\ [][NextCompile]_vars

-----------------------------------------------------------------------------
(* C10: for every attack whose text holds a recognised "before doing       *)
(* damage, x" clause, every step compiled for x stands at a smaller index  *)
(* of the plan than the damage-resolution step.                            *)
C10_BeforeDamageStepPrecedesDamage ==
    \A i \in DOMAIN plan_steps, d \in DOMAIN plan_steps :
       (plan_steps[i].origin = "x" /\ plan_steps[d].step_type = "damage") => i < d

-----------------------------------------------------------------------------
(* Deck validation and RefereeAgent.create.  player_decks are the decks    *)
(* handed to create; create_result is "pending" before the call, "ok"      *)
(* when it returned a referee, else the message of the error it raised.    *)

(* Deck.validate without the check of the uids *)
validate_SizeOnly(cards) ==
    IF Len(cards) # DeckSize THEN "Deck must contain exactly 60 cards" ELSE ""

(* Deck.validate: "" when it returns, else the message of its ValueError. *)
validate(cards) ==
    IF Len(cards) # DeckSize THEN "Deck must contain exactly 60 cards"
    ELSE IF Cardinality(Range(cards)) # DeckSize
         THEN "Every card in the deck must have a unique uid"
    ELSE ""

(* The loop of create over the decks: the first error raised, "" if none. *)
ValidateAll(decks) ==
    IF \E i \in DOMAIN PlayerOrder : validate(decks[PlayerOrder[i]]) # ""
    THEN validate(decks[PlayerOrder[CHOOSE i \in DOMAIN PlayerOrder :
                                       /\ validate(decks[PlayerOrder[i]]) # ""
                                       /\ \A j \in 1..(i-1) : validate(decks[PlayerOrder[j]]) = ""]])
    ELSE ""

Reverse(seq) == [i \in 1..Len(seq) |-> seq[Len(seq) + 1 - i]]

(* The card at position j replaced by a card with the uid of position i. *)
WithDuplicate(seq, i, j) == [seq EXCEPT ![j] = seq[i]]

(* Decks a caller may hand to create: legal ones, decks of 59 and of 61    *)
(* cards, and decks of 60 cards in which a uid occurs twice.               *)
DeckInputs(p) ==
    UNION {{b,
            SubSeq(b, 1, Len(b) - 1),
            Append(b, "extra"),
            Append(b, b[1]),
            WithDuplicate(b, 1, 2),
            WithDuplicate(b, 1, Len(b)),
            WithDuplicate(b, Len(b) - 1, Len(b))} : b \in {DeckList[p], Reverse(DeckList[p])}}

InitCreate ==
    /\ \E da \in DeckInputs("A"), db \in DeckInputs("B") : player_decks = [A |-> da, B |-> db]
    /\ create_result = "pending"
    /\ zones = [p \in Players |-> [z \in Zone |-> <<>>]]
    /\ damage = [c \in Cards |-> 0]
    /\ attached_energy = [c \in Cards |-> <<>>]
    /\ special_conditions = [c \in Cards |-> {}]
    /\ prizes_remaining = [p \in Players |-> PrizeCount]
    /\ usage_trackers = [p \in Players |-> <<>>]
    /\ turn_player = None
    /\ turn_number = 0
    /\ phase = "init"
    /\ nreq = 0
    /\ attach_done = 0
    /\ played = NoPlays
    /\ attack_text = NoText
    /\ plan_steps = <<>>

(* RefereeAgent.create: every deck is validated, then the state is built. *)
Create ==
    /\ create_result = "pending"
    /\ IF ValidateAll(player_decks) # ""
       THEN /\ create_result' = ValidateAll(player_decks)
            /\ UNCHANGED zones
       ELSE /\ create_result' = "ok"
            /\ \E sa \in Seeds, sb \in Seeds :
                  zones' = [p \in Players |->
                              _initialise_decks(player_decks[p], IF p = "A" THEN sa ELSE sb)]
    /\ UNCHANGED <<damage, attached_energy, special_conditions, prizes_remaining,
                   usage_trackers, turn_player, turn_number, phase,
                   nreq, attach_done, played, attack_text, plan_steps, player_decks>>

NextCreate == Create

SpecCreate == InitCreate /\ [][NextCreate]_vars

LegalDeck(cards) ==
    /\ Len(cards) = DeckSize
    /\ \A i \in DOMAIN cards, j \in DOMAIN cards : i < j => cards[i] # cards[j]

(* C17: Deck.validate returns without error exactly when the deck has 60   *)
(* cards with pairwise distinct uids; create returns a referee exactly     *)
(* when every deck is such a deck, and when it raises no game state was    *)
(* built.                                                                  *)
C17_DeckValidation ==
    /\ \A p \in Players : (validate(player_decks[p]) = "") <=> LegalDeck(player_decks[p])
    /\ create_result = "ok" => \A p \in Players : LegalDeck(player_decks[p])
    /\ create_result \notin {"pending", "ok"} =>
          /\ \E p \in Players : ~LegalDeck(player_decks[p])
          /\ \A p \in Players, z \in Zone : zones[p][z] = <<>>

(* create has rejected decks of which one has 60 cards and a repeated uid. *)
C17_Witness ==
    /\ create_result = "Every card in the deck must have a unique uid"
    /\ \E p \in Players :
          Len(player_decks[p]) = DeckSize /\ Cardinality(Range(player_decks[p])) < DeckSize

-----------------------------------------------------------------------------
(* GameTools called directly, as the effect code and the tests of the tool *)
(* layer call it: after the setup of the match every atomic operation may  *)
(* be called with any arguments; the tools perform no rule validation.     *)
ToolCall(op, p, c, c2, n, condition) ==
    [op |-> op, p |-> p, c |-> c, c2 |-> c2, n |-> n, condition |-> condition]

DrawCounts == {0, 1, 2, DeckSize}

ToolCalls(op) ==
    CASE op = "draw" -> {ToolCall(op, p, None, None, n, None) : p \in Players, n \in DrawCounts}
      [] op = "take_prize" ->
           {ToolCall(op, p, None, None, n, None) : p \in Players, n \in {1, 2, PrizeCount}}
      [] op = "modify_prize_delta" ->
           {ToolCall(op, p, None, None, n, None) : p \in Players, n \in {-5, -1, 1}}
      [] op = "set_special_condition" ->
           {ToolCall(op, None, c, None, 0, k) : c \in TargetIds, k \in {"Asleep", "Poisoned", "Dizzy"}}
      [] op = "remove_special_condition" ->
           {ToolCall(op, None, c, None, 0, k) : c \in TargetIds, k \in {"Asleep", "Poisoned"}}
      [] op = "update_damage" ->
           {ToolCall(op, None, c, None, n, None) : c \in TargetIds, n \in {10, 30, -10}}
      [] op = "check_ko" -> {ToolCall(op, None, c, None, 0, None) : c \in TargetIds}
      [] op = "attach_energy" ->
           {ToolCall(op, None, e, c, 0, None) : e \in EnergyIds \ {None}, c \in TargetIds}
      [] op = "shuffle" -> {ToolCall(op, p, None, None, 0, None) : p \in Players}
      [] OTHER -> {}

ToolOps == {"draw", "take_prize", "modify_prize_delta", "set_special_condition",
            "remove_special_condition", "update_damage", "check_ko", "attach_energy", "shuffle"}

ApplyTool(m, call, seed) ==
    CASE call.op = "draw" -> draw(m, call.p, call.n)
      [] call.op = "take_prize" -> take_prize(m, call.p, call.n)
      [] call.op = "modify_prize_delta" -> modify_prize_delta(m, call.p, call.n)
      [] call.op = "set_special_condition" -> set_special_condition(m, call.c, call.condition)
      [] call.op = "remove_special_condition" -> remove_special_condition(m, call.c, call.condition)
      [] call.op = "update_damage" -> update_damage(m, call.c, call.n)
      [] call.op = "check_ko" -> check_ko(m, call.c)
      [] call.op = "attach_energy" -> attach_energy(m, call.c, call.c2)
      [] call.op = "shuffle" -> shuffle(m, call.p, "deck", seed)

(* The setup of the match is done: both players have an active Pokemon. *)
SetupDone == \A p \in Players : ZoneCards(Here, p, "active") # <<>>

MayCall == create_result = "ok" /\ SetupDone /\ nreq < MaxRequests

Call(op) ==
    \E call \in ToolCalls(op), seed \in Seeds :
       /\ Commit(ApplyTool(Here, call, seed))
       /\ nreq' = nreq + 1
       /\ UNCHANGED <<attach_done, played>>

ToolDraw == MayCall /\ Call("draw")
ToolTakePrize == MayCall /\ Call("take_prize")
ToolModifyPrizeDelta == MayCall /\ Call("modify_prize_delta")
ToolSetSpecialCondition == MayCall /\ Call("set_special_condition")
ToolRemoveSpecialCondition == MayCall /\ Call("remove_special_condition")
ToolUpdateDamage == MayCall /\ Call("update_damage")
ToolCheckKo == MayCall /\ Call("check_ko")
ToolAttachEnergy == MayCall /\ Call("attach_energy")
ToolShuffle == MayCall /\ Call("shuffle")

NextTools ==
    \/ SetupDraw \/ PlaceActive
    \/ ToolDraw \/ ToolTakePrize \/ ToolModifyPrizeDelta \/ ToolSetSpecialCondition
    \/ ToolRemoveSpecialCondition \/ ToolUpdateDamage \/ ToolCheckKo \/ ToolAttachEnergy
    \/ ToolShuffle

SpecTools == Init /\ [][NextTools]_vars

-----------------------------------------------------------------------------
(* C15: each player's remaining prize count is 6 when the match is         *)
(* created, and no operation raises it or makes it negative.               *)
C15_PrizeCountNeverIncreases ==
    /\ \A p \in Players : prizes_remaining[p] = PrizeCount
    /\ [][\A p \in Players : /\ prizes_remaining'[p] <= prizes_remaining[p]
                             /\ prizes_remaining'[p] >= 0]_vars

Min(a, b) == IF a < b THEN a ELSE b

(* C20: for every count >= 0, draw(player, count) takes the first          *)
(* min(count, deck size) cards off the player's deck, appends them in deck *)
(* order to the player's hand, returns exactly those cards and changes     *)
(* nothing else; deck size plus hand size stays the same.                  *)
C20_DrawMovesTopCards ==
    \A p \in Players, count \in DrawCounts :
       LET deck == ZoneCards(Here, p, "deck")
           hand == ZoneCards(Here, p, "hand")
           k == Min(count, Len(deck))
           m2 == draw(Here, p, count)
           returned == m2.log[Len(m2.log)].cards
       IN  /\ ~Raised(m2)
           /\ ZoneCards(m2, p, "deck") = SubSeq(deck, k + 1, Len(deck))
           /\ ZoneCards(m2, p, "hand") = hand \o SubSeq(deck, 1, k)
           /\ returned = SubSeq(deck, 1, k)
           /\ \A q \in Players, z \in Zone :
                 (q # p \/ z \notin {"deck", "hand"}) => ZoneCards(m2, q, z) = zones[q][z]
           /\ Len(ZoneCards(m2, p, "deck")) + Len(ZoneCards(m2, p, "hand")) = Len(deck) + Len(hand)
           /\ StateOf([m2 EXCEPT !.zones = zones]) = game

(* A draw of more cards than the deck held has emptied a deck into a hand  *)
(* that already held cards.                                                *)
C20_Witness ==
    \E p \in Players :
       /\ ZoneCards(Here, p, "deck") = <<>>
       /\ Len(ZoneCards(Here, p, "hand")) = DeckSize - PrizeCount - 1
       /\ Len(ZoneCards(Here, p, "active")) = 1

-----------------------------------------------------------------------------
(* C11: the audit log determines the GameState, so that replaying it       *)
(* against a freshly built match reproduces the final state: every         *)
(* operation of a match (a request, the start of a turn, the end of a      *)
(* turn) that changes the GameState appends at least one audit entry.  An  *)
(* operation that changes the state and appends nothing leaves the same    *)
(* log before and after it, and no replay of that log yields both states.  *)
C11_ReplayReproducesState ==
    /\ InMainPhase =>
          /\ \A req \in AllRequests, seed \in Seeds :
                LET o == handle_request(Here, req, seed)
                IN  StateOf(o.m) # game => o.m.log # <<>>
          /\ LET m2 == end_turn(Here, CurrentPlayer)
             IN  StateOf(m2) # game => m2.log # <<>>
    /\ (phase = "draw" /\ check_win_condition(Here) = None) =>
          LET m2 == start_turn(Here, CurrentPlayer)
          IN  StateOf(m2) # game => m2.log # <<>>

(* The operations whose audit entry records a change of the named part of *)
(* the state.                                                              *)
Writers(part) ==
    CASE part = "zones" -> {"move_card", "shuffle", "draw", "discard", "take_prize",
                            "swap_active_with_bench", "evolve_pokemon", "check_ko",
                            "attach_energy"}
      [] part = "damage" -> {"update_damage", "evolve_pokemon"}
      [] part = "attached_energy" -> {"attach_energy", "evolve_pokemon"}
      [] part = "special_conditions" ->
           {"set_special_condition", "remove_special_condition", "evolve_pokemon"}
      [] part = "prizes_remaining" -> {"take_prize", "modify_prize_delta"}
      [] part = "usage_trackers" -> {"track_usage"}

Parts == {"zones", "damage", "attached_energy", "special_conditions",
          "prizes_remaining", "usage_trackers"}

PartOf(m, part) ==
    CASE part = "zones" -> m.zones
      [] part = "damage" -> m.damage
      [] part = "attached_energy" -> m.attached_energy
      [] part = "special_conditions" -> m.special_conditions
      [] part = "prizes_remaining" -> m.prizes_remaining
      [] part = "usage_trackers" -> m.usage_trackers

(* Every part of the state that differs between m and m2 has an entry of  *)
(* an operation that writes it among the entries m2 holds.                *)
Accounted(m, m2) ==
    \A part \in Parts :
       PartOf(m2, part) # PartOf(m, part) =>
          \E i \in DOMAIN m2.log : m2.log[i].action \in Writers(part)

WellFormed(entry, op) ==
    /\ entry.actor = "referee"
    /\ entry.action = op
    /\ op = "shuffle" => entry.random_seed # NoSeed

(* C12: every call of a state-mutating atomic operation of GameTools that  *)
(* returns appends an audit entry with the actor, the operation's name and *)
(* its parameters (and the seed for a shuffle), and zones, damage,         *)
(* attached energy, conditions, prize counts and usage counters change in  *)
(* no request and in no start of a turn without an entry of an operation   *)
(* that changes them.                                                      *)
C12_EveryChangeIsLogged ==
    /\ \A op \in ToolOps : \A call \in ToolCalls(op), seed \in Seeds :
          LET m2 == ApplyTool(Here, call, seed)
          IN  ~Raised(m2) =>
                 /\ m2.log # <<>>
                 /\ WellFormed(m2.log[Len(m2.log)], op)
                 /\ Accounted(Here, m2)
    /\ InMainPhase =>
          \A req \in AllRequests, seed \in Seeds : Accounted(Here, handle_request(Here, req, seed).m)
    /\ (phase = "draw" /\ check_win_condition(Here) = None) =>
          Accounted(Here, start_turn(Here, CurrentPlayer))

(* C13: a draw, discard, take-prize, move-to-bench, attach-energy, evolve, *)
(* switch, play-trainer, use-ability or use-attack request of a player     *)
(* who is not the turn player fails and changes no zone, usage counter or  *)
(* prize count.                                                            *)
C13_OnlyTurnPlayerActs ==
    InMainPhase =>
       \A a \in Handlers : \A req \in Requests(a), seed \in Seeds :
          req.actor_id # turn_player =>
             LET o == handle_request(Here, req, seed)
             IN  /\ ~o.result.success
                 /\ o.m.zones = zones
                 /\ o.m.usage_trackers = usage_trackers
                 /\ o.m.prizes_remaining = prizes_remaining

-----------------------------------------------------------------------------
(* The winners the win conditions name in m: a player without prizes       *)
(* left, the opponent of the player who is to draw from an empty deck at   *)
(* the start of the turn, the opponent of a player with no Pokemon in      *)
(* play once the setup is over.                                            *)
MustDraw(m, p) == m.phase = "draw" /\ m.turn_player = p

WinConditions(m) ==
    IF m.phase = "init" THEN {}
    ELSE {p \in Players : m.prizes_remaining[p] = 0}
         \cup {Opponent(p) : p \in {q \in Players : MustDraw(m, q) /\ ZoneCards(m, q, "deck") = <<>>}}
         \cup {Opponent(p) : p \in {q \in Players : InPlay(m, q) = <<>>}}

(* C16: check_win_condition reports a winner exactly when a win condition  *)
(* holds (no prizes left: that player; a draw due from an empty deck: the  *)
(* opponent; no Pokemon in active or bench: the opponent) and reports none *)
(* in every other state, a just created match and the setup included.      *)
C16_WinConditionExact ==
    LET winner == check_win_condition(Here)
    IN  IF WinConditions(Here) = {} THEN winner = None
        ELSE winner \in WinConditions(Here)

(* C19: a use_attack request with a target that runs through a compiled    *)
(* plan with a damage step raises the target's damage by the total the     *)
(* step computed, and resolves the knockout when damage reaches the HP.    *)
C19_PlanDamageApplied ==
    InMainPhase =>
       \A req \in Requests("use_attack"), seed \in Seeds :
          LET o == handle_request(Here, req, seed)
              t == req.target
          IN  (/\ o.result.success
               /\ o.result.data.has_damage
               /\ t # None
               /\ FindPokemonOwner(Here, t) # None) =>
                 \/ /\ FindPokemonOwner(o.m, t) # None
                    /\ o.m.damage[t] = damage[t] + o.result.data.damage
                    /\ o.m.damage[t] < Def(t).hp
                 \/ /\ damage[t] + o.result.data.damage >= Def(t).hp
                    /\ FindPokemonOwner(o.m, t) = None
                    /\ Contains(ZoneCards(o.m, FindPokemonOwner(Here, t), "discard"), t)

(* The plans with a selection: the search of aT1, the search to the bench  *)
(* of aN1, and a search that first discards n cards of the hand.           *)
SelectionPlans ==
    {load_plan_from_db("aT1", None), load_plan_from_db("aN1", None)}
    \cup {DiscardFirstPlan(n) : n \in 1..2}

(* C18: every suspended result of execute_with_plan carries the candidate  *)
(* list, the minimum and maximum count of the awaited selection, and a     *)
(* resumption token with the index of the suspended step and the outputs   *)
(* of the steps executed before it.                                        *)
C18_SuspendedResultComplete ==
    InMainPhase =>
       \A plan \in SelectionPlans, selected_cards \in {<<>>, <<"aP2">>}, seed \in Seeds :
          LET r == execute_with_plan(Here, turn_player, "aT1", plan, selected_cards, seed)
              steps == plan.execution_steps
          IN  (~Raised(r.m) /\ r.d.success /\ r.d.requires_selection) =>
                 /\ r.d.has_context
                 /\ r.d.step_index \in 0..(Len(steps) - 1)
                 /\ Len(r.d.executed_steps) = r.d.step_index
                 /\ steps[r.d.step_index + 1].step_type = "selection" =>
                       /\ r.d.has_counts
                       /\ r.d.min_count = steps[r.d.step_index + 1].params.min_count
                       /\ r.d.max_count = steps[r.d.step_index + 1].params.max_count
                 /\ r.d.has_counts

(* The messages with which a request is refused for a once-per-turn limit. *)
TurnLimitMessages ==
    {"You can only retreat once per turn", "You can only attach one Energy card per turn",
     "already used this turn", "Ability already used this turn",
     "You can only use one Supporter card per turn", "You can only use one Stadium card per turn"}

UsageKeys(m, p) == DOMAIN m.usage_trackers[p]

-----------------------------------------------------------------------------
(* The zone after is the zone before in the order the seed gives, card for *)
(* card.                                                                   *)
SamePermuted(before, after, seed) ==
    /\ Len(after) = Len(before)
    /\ \A c \in Range(before) \cup Range(after) :
          Cardinality({i \in DOMAIN after : after[i] = c})
            = Cardinality({i \in DOMAIN before : before[i] = c})
    /\ after = Permute(before, seed)

(* Machine m2 differs from the present state in zone z of player p only,   *)
(* and its log is one shuffle entry of p carrying the seed.                *)
OnlyShuffled(m2, p, z, seed) ==
    /\ ~Raised(m2)
    /\ \A q \in Players, y \in Zone :
          <<q, y>> # <<p, z>> => m2.zones[q][y] = zones[q][y]
    /\ StateOf([m2 EXCEPT !.zones = zones]) = game
    /\ Len(m2.log) = 1
    /\ m2.log[1].action = "shuffle" /\ m2.log[1].player = p
    /\ m2.log[1].random_seed = seed
    /\ SamePermuted(zones[p][z], m2.zones[p][z], m2.log[1].random_seed)

(* C21: shuffle(player, zone) only permutes the zone: the zone holds the   *)
(* same card instances and the same number of cards afterwards, no other   *)
(* zone and no other part of the state changes, and exactly one audit      *)
(* entry is appended, which carries the seed that produced the             *)
(* permutation.                                                            *)
C21_ShuffleOnlyPermutes ==
    \A p \in Players, z \in {"deck", "hand", "prize"}, seed \in 0..2 :
       OnlyShuffled(shuffle(Here, p, z, seed), p, z, seed)

(* A deck of more than one card has been shuffled into another order after *)
(* the opening hand was drawn from it.                                     *)
C21_Witness ==
    \E p \in Players :
       LET rest == Drop(InitialZones(p, CreateSeed)["deck"], OpeningHand)
       IN  /\ Len(zones[p]["deck"]) > 1
           /\ zones[p]["deck"] # rest
           /\ \E seed \in Seeds : zones[p]["deck"] = Permute(rest, seed)

-----------------------------------------------------------------------------
(* Plans of draw steps, which make every executed step visible in the      *)
(* state: step i of DrawSteps(deps) draws one card and depends on deps[i]. *)
DrawStep(depends_on) == Step("draw", "draw_cards", depends_on, [NoParams EXCEPT !.count = 1])

PlanOfSteps(steps) ==
    [effect_type |-> "trainer", effect_name |-> None, validation_rules |-> <<>>,
     execution_steps |-> steps]

(* Three draw steps of which step k (counted from 0) depends on deps. *)
MalformedSteps(k, deps) == [i \in 1..3 |-> DrawStep(IF i = k + 1 THEN deps ELSE <<>>)]

(* C22: when the interpreter reaches a step whose depends_on holds the     *)
(* index of a step not executed (its own index or a later one), execution  *)
(* stops with a failed result that names the step and the dependency, and  *)
(* neither that step nor a later one runs: the state is the one the steps  *)
(* before it left.                                                         *)
C22_MissingDependencyStopsPlan ==
    InMainPhase =>
       \A k \in 0..2, d \in 0..3 :
          \A deps \in {<<d>>} \cup (IF k > 0 THEN {<<k - 1, d>>} ELSE {}) :
             LET steps == MalformedSteps(k, deps)
                 full == execute_with_plan(Here, turn_player, "aT1", PlanOfSteps(steps), <<>>, 0)
                 before == execute_with_plan(Here, turn_player, "aT1",
                                             PlanOfSteps(SubSeq(steps, 1, k)), <<>>, 0)
             IN  d >= k =>
                    /\ ~full.d.success
                    /\ full.d.message = DependencyError(k, d)
                    /\ before.d.success
                    /\ full.m = before.m
                    /\ Len(full.m.log) = k

(* Two steps have run and the third, which depends on itself, has not. *)
C22_Witness ==
    /\ InMainPhase
    /\ LET full == execute_with_plan(Here, turn_player, "aT1",
                                     PlanOfSteps(MalformedSteps(2, <<2>>)), <<>>, 0)
       IN  /\ full.d.message = "Step 2 depends on step 2 which hasn't been executed"
           /\ Len(ZoneCards(full.m, turn_player, "hand")) = Len(zones[turn_player]["hand"]) + 2

(* Three draw steps of which step k (counted from 0) is skipped when no    *)
(* Stadium is in play and the last step depends on step dep.               *)
SkipSteps(k, dep) ==
    [i \in 1..3 |-> [DrawStep(IF i = 3 /\ dep >= 0 THEN <<dep>> ELSE <<>>) EXCEPT
                        !.skip_if = IF i = k + 1 THEN "no_stadium" ELSE None]]

(* C23: a step skipped because its skip_if condition holds changes no      *)
(* state and does not stop the plan: in a plan whose depends_on indices    *)
(* are all smaller than the index of the step that lists them, the other   *)
(* steps run as if the skipped step were not there and no dependency       *)
(* error is reported, whichever earlier step a later step depends on.      *)
C23_SkippedStepDoesNotStopPlan ==
    (InMainPhase /\ ZoneCards(Here, turn_player, "stadium") = <<>>) =>
       \A k \in 0..1, dep \in -1..1 :
          LET full == execute_with_plan(Here, turn_player, "aT1",
                                        PlanOfSteps(SkipSteps(k, dep)), <<>>, 0)
              others == execute_with_plan(Here, turn_player, "aT1",
                                          PlanOfSteps(<<DrawStep(<<>>), DrawStep(<<>>)>>), <<>>, 0)
          IN  /\ full.d.success
              /\ full.m = others.m


-----------------------------------------------------------------------------
(* The message of the one-per-turn rule for a kind of trainer. *)
TrainerLimitMessage(k) == "You can only use one " \o k \o " card per turn"

(* The play-trainer requests of the turn player that name a trainer of     *)
(* kind k held in the turn player's hand.                                  *)
TrainerPlays(k) ==
    {req \in Requests("play_trainer") :
        /\ req.actor_id = turn_player
        /\ req.card_id \in Cards
        /\ Contains(ZoneCards(Here, req.actor_id, "hand"), req.card_id)
        /\ Def(req.card_id).card_type = "Trainer"
        /\ k \in Def(req.card_id).subtypes}

-----------------------------------------------------------------------------
(* The Supporter plays of player p: the play-trainer requests of p that    *)
(* name a Supporter card held in p's hand.                                 *)
SupporterPlays(p) ==
    {req \in Requests("play_trainer") :
        /\ req.actor_id = p
        /\ req.card_id \in Cards
        /\ Contains(ZoneCards(Here, p, "hand"), req.card_id)
        /\ "Supporter" \in Def(req.card_id).subtypes}

(* The attacks player p can declare: the use-attack requests of p that     *)
(* name p's active Pokemon and its attack, the energy cost being paid, and *)
(* leave the target to the referee.                                        *)
PayableAttacks(p) ==
    {req \in Requests("use_attack") :
        /\ req.actor_id = p
        /\ req.target = None
        /\ Contains(ZoneCards(Here, p, "active"), req.card_id)
        /\ Def(req.card_id).attack.name = req.name
        /\ _check_energy_requirements(Here, req.card_id, Def(req.card_id).attack)}

(* C25: in the main phase of turn number 1 every Supporter play and every  *)
(* attack of the first player fails with the first-turn message and leaves *)
(* the state unchanged, while in the second player's own first turn a      *)
(* Supporter play (none played yet) and a payable attack succeed and no    *)
(* request fails with a first-turn message.                                *)
C25_FirstPlayerFirstTurnRestricted ==
    (phase = "main" /\ turn_number = 1) =>
       /\ turn_player = PlayerOrder[1] =>
             /\ \A req \in SupporterPlays(PlayerOrder[1]), seed \in Seeds :
                   LET o == handle_request(Here, req, seed)
                   IN  /\ ~o.result.success
                       /\ o.result.message
                            = "The first player cannot use Supporter cards on their first turn"
                       /\ StateOf(o.m) = game
             /\ \A req \in Requests("use_attack") :
                   req.actor_id = PlayerOrder[1] =>
                      LET o == handle_request(Here, req, 0)
                      IN  /\ ~o.result.success
                          /\ o.result.message = "The first player cannot attack on their first turn"
                          /\ StateOf(o.m) = game
       /\ turn_player = PlayerOrder[2] =>
             /\ played["Supporter"] = 0 =>
                   \A req \in SupporterPlays(PlayerOrder[2]), seed \in Seeds :
                      LET o == handle_request(Here, req, seed)
                      IN  /\ o.result.success
                          /\ Contains(ZoneCards(o.m, PlayerOrder[2], "discard"), req.card_id)
             /\ \A req \in PayableAttacks(PlayerOrder[2]) :
                   LET o == handle_request(Here, req, 0)
                   IN  o.result.success
             /\ \A req \in Requests("use_attack") \cup Requests("play_trainer"), seed \in Seeds :
                   handle_request(Here, req, seed).result.message
                      \notin {"The first player cannot attack on their first turn",
                              "The first player cannot use Supporter cards on their first turn"}

(* The first player's first turn with a Supporter in the hand and an       *)
(* active Pokemon whose attack is paid for.                                *)
C25_Witness ==
    /\ phase = "main" /\ turn_number = 1 /\ turn_player = PlayerOrder[1]
    /\ SupporterPlays(PlayerOrder[1]) # {}
    /\ PayableAttacks(PlayerOrder[1]) # {}

(* The second player's first turn with the same means. *)
C25_SecondPlayerFree ==
    /\ phase = "main" /\ turn_number = 1 /\ turn_player = PlayerOrder[2]
    /\ played["Supporter"] = 0
    /\ SupporterPlays(PlayerOrder[2]) # {}
    /\ PayableAttacks(PlayerOrder[2]) # {}


-----------------------------------------------------------------------------
(* The Stadium cards in play: both players' stadium zones. *)
StadiumsInPlay(m) == ZoneCards(m, PlayerOrder[1], "stadium") \o ZoneCards(m, PlayerOrder[2], "stadium")

(* C29: the two players' stadium zones together never hold more than one   *)
(* card, and after a play-trainer request that put a Stadium card into     *)
(* play that card is the only Stadium in play.                             *)
C29_SingleStadiumInPlay ==
    /\ Len(StadiumsInPlay(Here)) <= 1
    /\ phase = "main" =>
          \A req \in TrainerPlays("Stadium"), seed \in Seeds :
             LET o == handle_request(Here, req, seed)
             IN  Contains(StadiumsInPlay(o.m), req.card_id) =>
                    StadiumsInPlay(o.m) = <<req.card_id>>


-----------------------------------------------------------------------------
(* The switch requests of the turn player that name a card. *)
RetreatRequests ==
    {req \in Requests("switch_pokemon") : req.actor_id = turn_player /\ req.card_id # None}

(* The answer to a request leaves machine m as it was. *)
Rejected(m, o) == ~o.result.success /\ StateOf(o.m) = StateOf(m)

(* The machine after a special condition was put on card c. *)
WithCondition(c, cond) == set_special_condition(Here, c, cond)

(* A successful retreat of active Pokemon ap for benched card b of player  *)
(* p: exactly the retreat cost is gone from ap's energy, and ap and b have *)
(* changed places.                                                         *)
Retreated(m, m2, p, ap, b) ==
    /\ Len(m2.attached_energy[ap]) = Len(m.attached_energy[ap]) - _get_retreat_cost(ap)
    /\ ZoneCards(m2, p, "active") = <<b>>
    /\ Contains(ZoneCards(m2, p, "bench"), ap)
    /\ ~Contains(ZoneCards(m2, p, "bench"), b)
    /\ Len(ZoneCards(m2, p, "bench")) = Len(ZoneCards(m, p, "bench"))

(* C26: in the main phase a switch request of the turn player is rejected  *)
(* without a state change when the active Pokemon is Asleep or Paralyzed,  *)
(* when it has less energy attached than its retreat cost, and when a      *)
(* switch has already succeeded in the turn; a switch that succeeds takes  *)
(* exactly the retreat cost from the energy of the retreating Pokemon and  *)
(* exchanges it with the benched Pokemon the request names.                *)
C26_RetreatRules ==
    (phase = "main" /\ ZoneCards(Here, turn_player, "active") # <<>>) =>
       LET ap == ZoneCards(Here, turn_player, "active")[1]
       IN  \A req \in RetreatRequests :
              /\ \A cond \in {"Asleep", "Paralyzed"} :
                    Rejected(WithCondition(ap, cond), handle_request(WithCondition(ap, cond), req, 0))
              /\ Len(attached_energy[ap]) < _get_retreat_cost(ap) =>
                    Rejected(Here, handle_request(Here, req, 0))
              /\ handle_request(Here, req, 0).result.success =>
                    /\ Retreated(Here, handle_request(Here, req, 0).m, turn_player, ap, req.card_id)
                    /\ \A req2 \in RetreatRequests :
                          Rejected(handle_request(Here, req, 0).m,
                                   handle_request(handle_request(Here, req, 0).m, req2, 0))


-----------------------------------------------------------------------------
(* The move-to-bench requests of the turn player that bring a card into    *)
(* play: the card is not in play before and is on the bench after.         *)
EntersPlay(req) ==
    /\ req.actor_id = turn_player
    /\ ~Contains(InPlay(Here, req.actor_id), req.card_id)
    /\ handle_request(Here, req, 0).result.success
    /\ Contains(ZoneCards(handle_request(Here, req, 0).m, req.actor_id, "bench"), req.card_id)

(* C27: in every turn, an evolve request without the skip-stage flag whose *)
(* base Pokemon was moved to the bench earlier in the same turn fails and  *)
(* the base Pokemon stays in play unevolved.                               *)
C27_NoEvolutionOnEntryTurn ==
    phase = "main" =>
       \A req \in Requests("move_to_bench") :
          EntersPlay(req) =>
             \A ev \in Requests("evolve_pokemon") :
                (ev.actor_id = req.actor_id /\ ev.target = req.card_id /\ ~ev.flag) =>
                   LET o == handle_request(handle_request(Here, req, 0).m, ev, 0)
                   IN  /\ ~o.result.success
                       /\ Contains(InPlay(o.m, req.actor_id), req.card_id)


-----------------------------------------------------------------------------
(* The requests that can put a card on a bench or take one from it. *)
BenchRequests ==
    UNION {Requests(a) : a \in {"move_to_bench", "play_trainer", "switch_pokemon", "evolve_pokemon"}}

(* C28: no player's bench holds more than five cards, and a request made   *)
(* while the actor's bench is full that would put a further card on it     *)
(* fails, every bench keeping at most five cards.                          *)
C28_BenchAtMostFive ==
    /\ \A p \in Players : Len(ZoneCards(Here, p, "bench")) <= BenchCap
    /\ phase = "main" =>
          \A req \in BenchRequests, seed \in Seeds :
             LET o == handle_request(Here, req, seed)
             IN  /\ \A p \in Players : Len(ZoneCards(o.m, p, "bench")) <= BenchCap
                 /\ (/\ check_bench_full(Here, req.actor_id)
                     /\ req.action = "move_to_bench"
                     /\ req.card_id \in Cards
                     /\ Contains(ZoneCards(Here, req.actor_id, "hand"), req.card_id))
                    => ~o.result.success


-----------------------------------------------------------------------------
(* What end_turn and start_turn answer in the present state: end_turn by   *)
(* the turn player hands the turn to the other player in phase draw,       *)
(* the turn number growing by one when the first player is next; end_turn  *)
(* and start_turn by anyone else raise and change nothing; start_turn by   *)
(* the player whose turn it is sets the phase to main.                     *)
TurnCallsAnswered ==
    \A p \in Players :
       /\ p = turn_player =>
             /\ ~Raised(end_turn(Here, p))
             /\ end_turn(Here, p).turn_player = Opponent(p)
             /\ end_turn(Here, p).phase = "draw"
             /\ end_turn(Here, p).turn_number
                  = turn_number + (IF Opponent(p) = PlayerOrder[1] THEN 1 ELSE 0)
       /\ p # turn_player =>
             /\ Raised(end_turn(Here, p))
             /\ StateOf(end_turn(Here, p)) = game
       /\ p = CurrentPlayer =>
             /\ ~Raised(start_turn(Here, p))
             /\ start_turn(Here, p).phase = "main"
             /\ start_turn(Here, p).turn_player = p
       /\ p # CurrentPlayer =>
             /\ Raised(start_turn(Here, p))
             /\ StateOf(start_turn(Here, p)) = game

(* A step of the match: the turn passes only to the other player, and the  *)
(* turn number never decreases and grows by exactly one exactly when the   *)
(* turn passes to the first player.                                        *)
TurnStep ==
    /\ (turn_player # None /\ turn_player' # turn_player) => turn_player' = Opponent(turn_player)
    /\ turn_number' >= turn_number
    /\ turn_player # None =>
          turn_number' = turn_number
                           + (IF turn_player' # turn_player /\ turn_player' = PlayerOrder[1]
                              THEN 1 ELSE 0)

(* C30: turns strictly alternate; end_turn by the turn player passes the   *)
(* turn and sets the phase to draw, end_turn and start_turn by any other   *)
(* player fail without changing state, start_turn sets the phase to main,  *)
(* and turn_number never decreases and grows by exactly one each time the  *)
(* turn returns to the first player.                                       *)
C30_TurnsAlternate == [] TurnCallsAnswered /\ [][TurnStep]_vars


-----------------------------------------------------------------------------
(* The actions of the main phase. *)
MainPhaseActions ==
    {"attach_energy", "evolve_pokemon", "switch_pokemon", "play_trainer", "use_ability", "use_attack"}

(* C31: while the phase is not main, every main-phase request of the       *)
(* player whose turn it is fails and leaves the state unchanged.           *)
C31_MainActionsNeedMainPhase ==
    phase # "main" =>
       \A a \in MainPhaseActions :
          \A req \in Requests(a), seed \in Seeds :
             req.actor_id = CurrentPlayer =>
                LET o == handle_request(Here, req, seed)
                IN  /\ ~o.result.success
                    /\ StateOf(o.m) = game


-----------------------------------------------------------------------------
(* The use-ability requests of the turn player that name a Pokemon of      *)
(* theirs in play and its once-during-your-turn ability.                   *)
OncePerTurnUses ==
    {req \in Requests("use_ability") :
        /\ req.actor_id = turn_player
        /\ Contains(InPlay(Here, req.actor_id), req.card_id)
        /\ Def(req.card_id).ability.name = req.name
        /\ Def(req.card_id).ability.once_turn}

(* The answer o to a request made in machine m took effect. *)
TookEffect(m, o) == o.result.success /\ StateOf(o.m) # StateOf(m)

(* C32: after a use of a once-during-your-turn ability has taken effect,   *)
(* a further use-ability request for the same Pokemon in the same turn     *)
(* changes nothing, whether the ability runs through a compiled plan or    *)
(* through its text.                                                       *)
C32_OncePerTurnAbility ==
    phase = "main" =>
       \A req \in OncePerTurnUses :
          TookEffect(Here, handle_request(Here, req, 0)) =>
             StateOf(handle_request(handle_request(Here, req, 0).m, req, 0).m)
               = StateOf(handle_request(Here, req, 0).m)


-----------------------------------------------------------------------------
(* The machine after damage equal to its HP was put on Pokemon c. *)
KnockedOut(c) == update_damage(Here, c, Def(c).hp)

(* Machine m2 is machine m after the knockout of c, owned by owner, was    *)
(* resolved: c is in the owner's discard pile and on neither spot, and the *)
(* opponent has taken exactly one prize card.                              *)
KnockoutResolved(m, m2, c, owner) ==
    /\ ~Raised(m2)
    /\ Contains(ZoneCards(m2, owner, "discard"), c)
    /\ ~Contains(InPlay(m2, owner), c)
    /\ m2.prizes_remaining[Opponent(owner)] = m.prizes_remaining[Opponent(owner)] - 1
    /\ Len(ZoneCards(m2, Opponent(owner), "prize")) = Len(ZoneCards(m, Opponent(owner), "prize")) - 1

(* Machine m3, reached from m2 by a further call, holds the prizes of m2. *)
NoFurtherPrize(m2, m3) ==
    \A p \in Players :
       /\ m3.prizes_remaining[p] = m2.prizes_remaining[p]
       /\ ZoneCards(m3, p, "prize") = ZoneCards(m2, p, "prize")

(* C33: when check_ko finds a Pokemon in play knocked out (the opponent    *)
(* having prizes left), the Pokemon leaves play for its owner's discard    *)
(* pile from the active spot or the bench, the opponent takes exactly one  *)
(* prize, and a second check_ko for the same Pokemon awards no further     *)
(* prize.                                                                  *)
C33_KnockoutResolvedOnce ==
    \A p \in Players :
       \A i \in DOMAIN InPlay(Here, p) :
          (is_ko(KnockedOut(InPlay(Here, p)[i]), InPlay(Here, p)[i])
             /\ prizes_remaining[Opponent(p)] > 0) =>
             /\ KnockoutResolved(KnockedOut(InPlay(Here, p)[i]),
                                 check_ko(KnockedOut(InPlay(Here, p)[i]), InPlay(Here, p)[i]),
                                 InPlay(Here, p)[i], p)
             /\ NoFurtherPrize(check_ko(KnockedOut(InPlay(Here, p)[i]), InPlay(Here, p)[i]),
                               check_ko(check_ko(KnockedOut(InPlay(Here, p)[i]), InPlay(Here, p)[i]),
                                        InPlay(Here, p)[i]))


-----------------------------------------------------------------------------
(* The play-trainer requests of the turn player that name a card of the    *)
(* hand and suspend for a selection.                                       *)
SuspendingPlays ==
    {req \in Requests("play_trainer") :
        /\ req.actor_id = turn_player
        /\ req.card_id \in Cards
        /\ Contains(ZoneCards(Here, req.actor_id, "hand"), req.card_id)
        /\ ~Raised(handle_request(Here, req, 0).m)
        /\ handle_request(Here, req, 0).result.data.requires_selection}

(* The follow-up of request req that carries the chosen uid. *)
FollowUp(req, uid) == [req EXCEPT !.card_ids = <<uid>>]

(* C34: a play-trainer request that suspends for a selection leaves the    *)
(* trainer card in the actor's hand and records no usage, and the          *)
(* follow-up request with the same card_id and a chosen candidate finds    *)
(* the card and completes, the card then being in the discard pile.        *)
C34_SuspendedTrainerIsNotConsumed ==
    phase = "main" =>
       \A req \in SuspendingPlays :
          LET o == handle_request(Here, req, 0)
          IN  /\ Contains(ZoneCards(o.m, req.actor_id, "hand"), req.card_id)
              /\ ~Contains(ZoneCards(o.m, req.actor_id, "discard"), req.card_id)
              /\ o.m.usage_trackers = usage_trackers
              /\ \A i \in DOMAIN o.result.data.candidates :
                    LET o2 == handle_request(o.m, FollowUp(req, o.result.data.candidates[i]), 0)
                    IN  /\ o2.result.success
                        /\ ~o2.result.data.requires_selection
                        /\ Contains(ZoneCards(o2.m, req.actor_id, "discard"), req.card_id)


-----------------------------------------------------------------------------
(* C35: for every player, prizes_remaining equals the number of cards in   *)
(* that player's prize zone.                                               *)
C35_PrizeCountMatchesPrizeZone ==
    \A p \in Players : prizes_remaining[p] = Len(ZoneCards(Here, p, "prize"))


-----------------------------------------------------------------------------
(* The uids handed to the atomic operations. *)
StaleIds == TargetIds \cup {"aE1", "bE1"}

(* Machine m2 is a call that raised and left every zone, damage value and  *)
(* attached-energy list as in the present state.                           *)
RaisedUntouched(m2) ==
    /\ Raised(m2)
    /\ m2.zones = zones
    /\ m2.damage = damage
    /\ m2.attached_energy = attached_energy

(* The first cards of player p's deck, revealed by an effect. *)
Revealed(p, n) == Take(ZoneCards(Here, p, "deck"), n)

(* C36: an atomic operation given a card or Pokemon uid that is not in the *)
(* zone the operation requires raises an error and leaves every zone,      *)
(* damage value and attached-energy list unchanged.                        *)
C36_NotFoundChangesNothing ==
    \A p \in Players, c \in StaleIds :
       /\ \A source \in {"hand", "deck", "bench"} :
             ~Contains(ZoneCards(Here, p, source), c) =>
                RaisedUntouched(move_card(Here, p, source, "discard", c))
       /\ \A opponent \in BOOLEAN :
             ~Contains(ZoneCards(Here, IF opponent THEN Opponent(p) ELSE p, "bench"), c) =>
                RaisedUntouched(swap_active_with_bench(Here, p, c, opponent))
       /\ \A d \in StaleIds :
             (~Contains(ZoneCards(Here, p, "hand"), d) \/ ~Contains(InPlay(Here, p), c)) =>
                RaisedUntouched(evolve_pokemon(Here, p, c, d))
       /\ FindPokemonOwner(Here, c) = None =>
             /\ RaisedUntouched(update_damage(Here, c, 10))
             /\ \A e \in StaleIds :
                   Def(e).card_type = "Energy" => RaisedUntouched(attach_energy(Here, e, c))
             /\ \A n \in 1..MaxReveal :
                   (\E i \in DOMAIN Revealed(p, n) : Def(Revealed(p, n)[i]).card_type = "Energy") =>
                      RaisedUntouched(attach_energy_from_reveal(Here, p, Revealed(p, n), c))
       /\ FindHandOwner(Here, c) = None =>
             \A t \in StaleIds : RaisedUntouched(attach_energy(Here, c, t))
       /\ (\A z \in Zone : ~Contains(ZoneCards(Here, p, z), c)) =>
             RaisedUntouched(send_to_lost_zone(Here, p, c))

-----------------------------------------------------------------------------
(* C37: immediately after RefereeAgent.create returned for two valid       *)
(* decks, each player has 54 cards in the deck zone and 6 in the prize     *)
(* zone, which together are exactly the 60 cards of the deck handed in,    *)
(* every other zone is empty, prizes_remaining is 6, and the match has no  *)
(* turn player, turn number 0 and phase init.                              *)
C37_FreshMatch ==
    create_result = "ok" =>
       /\ \A p \in Players :
             /\ Len(zones[p]["deck"]) = DeckSize - PrizeCount
             /\ Len(zones[p]["prize"]) = PrizeCount
             /\ Range(zones[p]["deck"]) \cup Range(zones[p]["prize"]) = Range(player_decks[p])
             /\ Range(zones[p]["deck"]) \cap Range(zones[p]["prize"]) = {}
             /\ Cardinality(Range(zones[p]["deck"]) \cup Range(zones[p]["prize"])) = DeckSize
             /\ \A z \in Zone \ {"deck", "prize"} : zones[p][z] = <<>>
             /\ prizes_remaining[p] = PrizeCount
       /\ turn_player = None
       /\ turn_number = 0
       /\ phase = "init"

(* create has returned a referee for two decks of 60 distinct cards, one   *)
(* of them handed in in another order than the card list.                  *)
C37_Witness ==
    /\ create_result = "ok"
    /\ \A p \in Players : LegalDeck(player_decks[p])
    /\ \E p \in Players : player_decks[p] # DeckList[p]
    /\ \A p \in Players : zones[p]["prize"] # <<>>

====
